---- MODULE Spec2Model ----
(***************************************************************************)
(* The components of the dashboard as state machines: the calculator of   *)
(* src/src/Calculator.tsx, the OCR panels, the color picker, the countdown *)
(* timer and the navigation dock.  The components share no state: each     *)
(* has its own variables and its own specification, in which the others    *)
(* stay as they were mounted.                                              *)
(*                                                                         *)
(* An event handler and the effects React runs after it are one step.  An  *)
(* asynchronous handler is one step up to its await and one step for each  *)
(* way the awaited promise settles.                                        *)
(*                                                                         *)
(* A JavaScript string is a sequence of one-character strings.  The three  *)
(* operator keys and the characters of the error message that are not      *)
(* ASCII are written by their code points ("U+00F7" is the division sign). *)
(* A value of type (number | string) is a record [type, val]: val holds    *)
(* the characters of a string, or the decimal characters String() gives    *)
(* for a number (the only number the state ever holds is 0).               *)
(*                                                                         *)
(* A JavaScript number, while an expression is evaluated, is a record      *)
(* [kind, neg, n, e]: NaN, an infinity, or the finite value                *)
(* (-1)^neg * n / 10^e with n not divisible by 10 unless e = 0 (so that    *)
(* -0 and +0 are kept apart, as IEEE 754 keeps them).  Sums, differences   *)
(* and products are exact; a quotient whose expansion does not end is      *)
(* rounded once its significand has SigDigits digits, where binary64       *)
(* rounds to 53 bits.  String() and Number() are inverse on these values,  *)
(* as they are on doubles.                                                 *)
(*                                                                         *)
(* An integer literal of ten digits or more is beyond the integers of the  *)
(* model checker: Number() reads it as a record [kind |-> "big", neg, d],  *)
(* d the decimal digits of the binary64 value nearest to it (exact up to   *)
(* 2^53, the nearest even integer above, ties to the even significand).    *)
(* Such a value can be tested, negated and printed; the arithmetic of      *)
(* math is not defined on it.                                              *)
(***************************************************************************)
EXTENDS Integers, Sequences, FiniteSets, TLC

\* ------------------------------------------------------------------ bounds

\* Keys pressed in one run of the model.
MaxKeys == 6

\* Digits of a quotient's significand kept when its expansion does not end.
SigDigits == 4

\* The digit keys the model presses (the keypad has all ten).
DigitKeys == {"0", "2"}

\* Keys pressed in one run in which only digits are typed, and the digits typed.
MaxTyped == 17

TypedKeys == {"0", "9"}

\* ------------------------------------------------------------- characters

DigitChars == <<"0", "1", "2", "3", "4", "5", "6", "7", "8", "9">>

DigitSet == {DigitChars[i] : i \in 1..10}

DigitOf == [c \in DigitSet |-> (CHOOSE i \in 1..10 : DigitChars[i] = c) - 1]

\* The four operator keys of btnValues: "+" and the signs U+2212, U+00D7, U+00F7.
ADD == "+"

SUB == "U+2212"

MUL == "U+00D7"

DIV == "U+00F7"

SignKeys == {ADD, SUB, MUL, DIV}

\* const zeroDivisionError: four CJK characters, a space and "0".
zeroDivisionError == <<"U+4E0D", "U+80FD", "U+9664", "U+4EE5", " ", "0">>

InfinityChars == <<"I", "n", "f", "i", "n", "i", "t", "y">>

NaNChars == <<"N", "a", "N">>

\* removeSpaces(calc.num).length < 16
MaxOperandChars == 16

\* ------------------------------------------------------- (number | string)

Str(cs) == [type |-> "string", val |-> cs]

\* The number 0 of the initial state and of every reset of num and res.
NumZero == [type |-> "number", val |-> <<"0">>]

\* String(v), v.toString(), and v as a template-literal part.
ToStr(v) == v.val

\* JavaScript truthiness of a field: a non-zero number or a non-empty string.
Truthy(v) ==
    IF v.type = "number" THEN v.val # <<"0">> ELSE v.val # <<>>

\* String.prototype.includes for a one-character needle.
Includes(cs, ch) == \E i \in 1..Len(cs) : cs[i] = ch

\* ---------------------------------------------------------------- numbers

Fin(neg, n, e) == [kind |-> "fin", neg |-> neg, n |-> n, e |-> e]

Inf(neg) == [kind |-> "inf", neg |-> neg, n |-> 0, e |-> 0]

NaN == [kind |-> "nan", neg |-> FALSE, n |-> 0, e |-> 0]

RECURSIVE Pow10(_)
Pow10(k) == IF k = 0 THEN 1 ELSE 10 * Pow10(k - 1)

\* The finite value n / 10^e in its normal form.
RECURSIVE Norm(_, _, _)
Norm(neg, n, e) ==
    IF e > 0 /\ n % 10 = 0 THEN Norm(neg, n \div 10, e - 1) ELSE Fin(neg, n, e)

RECURSIVE DigitsToNat(_)
DigitsToNat(cs) ==
    IF cs = <<>> THEN 0
    ELSE 10 * DigitsToNat(SubSeq(cs, 1, Len(cs) - 1)) + DigitOf[cs[Len(cs)]]

RECURSIVE NatToDigits(_)
NatToDigits(n) ==
    IF n < 10 THEN <<DigitChars[n + 1]>>
    ELSE Append(NatToDigits(n \div 10), DigitChars[(n % 10) + 1])

AllDigits(cs) == \A i \in 1..Len(cs) : cs[i] \in DigitSet

RECURSIVE Zeros(_)
Zeros(k) == IF k = 0 THEN <<>> ELSE <<"0">> \o Zeros(k - 1)

\* Index of the first ch in cs, or 0.
IndexOf(cs, ch) ==
    IF Includes(cs, ch) THEN CHOOSE i \in 1..Len(cs) :
        cs[i] = ch /\ \A j \in 1..(i - 1) : cs[j] # ch
    ELSE 0

\* An integer too long for the model checker, by the digits of its double.
Big(neg, d) == [kind |-> "big", neg |-> neg, d |-> d]

RECURSIVE StripLeadingZeros(_)
StripLeadingZeros(cs) ==
    IF Len(cs) > 1 /\ cs[1] = "0" THEN StripLeadingZeros(Tail(cs)) ELSE cs

\* 2^53 = 9007199254740992: every integer up to it is a double.
TwoTo53 ==
    <<"9", "0", "0", "7", "1", "9", "9", "2", "5", "4", "7", "4", "0", "9", "9", "2">>

\* a <= b, for digit strings of one length.
RECURSIVE DigitsLeq(_, _)
DigitsLeq(a, b) ==
    IF a = <<>> THEN TRUE
    ELSE IF a[1] # b[1] THEN DigitOf[a[1]] < DigitOf[b[1]]
    ELSE DigitsLeq(Tail(a), Tail(b))

\* The digits of n + 1 from the digits of n.
RECURSIVE DigitsPlusOne(_)
DigitsPlusOne(ds) ==
    IF ds = <<>> THEN <<"1">>
    ELSE LET front == SubSeq(ds, 1, Len(ds) - 1)
             lo    == DigitOf[ds[Len(ds)]]
         IN  IF lo = 9 THEN DigitsPlusOne(front) \o <<"0">>
             ELSE front \o <<DigitChars[lo + 2]>>

\* The digits of n - 1 from the digits of an odd n.
DigitsMinusOne(ds) ==
    SubSeq(ds, 1, Len(ds) - 1) \o <<DigitChars[DigitOf[ds[Len(ds)]]]>>

\* The digits of the double nearest to the integer with the digits ds (no
\* leading zero, at most 16 digits, so below 2^54): the integer itself up to
\* 2^53 and when it is even; for an odd one the even neighbour that is a
\* multiple of 4, whose significand is even.
RoundToDouble(ds) ==
    CASE Len(ds) < Len(TwoTo53) \/ (Len(ds) = Len(TwoTo53) /\ DigitsLeq(ds, TwoTo53)) -> ds
      [] Len(ds) = Len(TwoTo53) /\ ~DigitsLeq(ds, TwoTo53) ->
            LET lastTwo == 10 * DigitOf[ds[Len(ds) - 1]] + DigitOf[ds[Len(ds)]]
            IN  IF lastTwo % 2 = 0 THEN ds
                ELSE IF lastTwo % 4 = 1 THEN DigitsMinusOne(ds)
                ELSE DigitsPlusOne(ds)

\* StrWhiteSpace stripped from both ends, as StringToNumber does first.
RECURSIVE TrimSpaces(_)
TrimSpaces(cs) ==
    IF cs # <<>> /\ cs[1] = " " THEN TrimSpaces(Tail(cs))
    ELSE IF cs # <<>> /\ cs[Len(cs)] = " " THEN TrimSpaces(SubSeq(cs, 1, Len(cs) - 1))
    ELSE cs

\* An unsigned StrDecimalLiteral: digits with at most one point and at least
\* one digit, then an optional exponent part.
DecimalLiteral(neg, body) ==
    LET ePos == IF Includes(body, "e") THEN IndexOf(body, "e") ELSE IndexOf(body, "E")
        mant == IF ePos = 0 THEN body ELSE SubSeq(body, 1, ePos - 1)
        expo == IF ePos = 0 THEN <<>> ELSE SubSeq(body, ePos + 1, Len(body))
        eNeg == expo # <<>> /\ expo[1] = "-"
        eDig == IF expo # <<>> /\ expo[1] \in {"-", "+"} THEN Tail(expo) ELSE expo
        dot  == IndexOf(mant, ".")
        int  == IF dot = 0 THEN mant ELSE SubSeq(mant, 1, dot - 1)
        frac == IF dot = 0 THEN <<>> ELSE SubSeq(mant, dot + 1, Len(mant))
        ok   == /\ AllDigits(int) /\ AllDigits(frac) /\ Len(int) + Len(frac) > 0
                /\ ePos # 0 => (eDig # <<>> /\ AllDigits(eDig))
    IN  IF ~ok THEN NaN
        ELSE IF ePos = 0 /\ frac = <<>> /\ Len(StripLeadingZeros(int)) > 9
            THEN Big(neg, RoundToDouble(StripLeadingZeros(int)))
        ELSE LET n  == DigitsToNat(int \o frac)
                 x  == IF eNeg THEN -DigitsToNat(eDig) ELSE DigitsToNat(eDig)
                 sc == Len(frac) - x
             IN  IF n = 0 THEN Fin(neg, 0, 0)
                 ELSE IF sc >= 0 THEN Norm(neg, n, sc)
                 ELSE Fin(neg, n * Pow10(-sc), 0)

\* Number(s) of a string (StringToNumber): the empty string is 0, a signed
\* Infinity or decimal literal its value, and every other string NaN (the
\* calculator builds no hexadecimal, octal or binary literal).
Number(cs) ==
    LET s    == TrimSpaces(cs)
        neg  == s # <<>> /\ s[1] = "-"
        body == IF s # <<>> /\ s[1] \in {"-", "+"} THEN Tail(s) ELSE s
    IN  IF s = <<>> THEN Fin(FALSE, 0, 0)
        ELSE IF body = InfinityChars THEN Inf(neg)
        ELSE DecimalLiteral(neg, body)

\* Number::toString(x) in radix 10: decimal notation from 1e-6 up, exponent
\* notation below (a value of 1e21 or more is beyond the integers of the model).
NumberToString(x) ==
    IF x.kind = "nan" THEN NaNChars
    ELSE IF x.kind = "inf" THEN (IF x.neg THEN <<"-">> ELSE <<>>) \o InfinityChars
    ELSE IF x.kind = "big" THEN (IF x.neg THEN <<"-">> ELSE <<>>) \o x.d
    ELSE IF x.n = 0 THEN <<"0">>
    ELSE LET d    == NatToDigits(x.n)
             len  == Len(d)
             pt   == len - x.e
             sgn  == IF x.neg THEN <<"-">> ELSE <<>>
         IN  IF x.e = 0 THEN sgn \o d
             ELSE IF pt > 0
                 THEN sgn \o SubSeq(d, 1, pt) \o <<".">> \o SubSeq(d, pt + 1, len)
             ELSE IF pt > -6 THEN sgn \o <<"0", ".">> \o Zeros(-pt) \o d
             ELSE sgn \o <<d[1]>>
                      \o (IF len > 1 THEN <<".">> \o Tail(d) ELSE <<>>)
                      \o <<"e", "-">> \o NatToDigits(1 - pt)

\* x % 1 === 0
IsInteger(x) == x.kind = "big" \/ (x.kind = "fin" /\ x.e = 0)

\* x * -1
Negate(x) == IF x.kind = "nan" THEN NaN ELSE [x EXCEPT !.neg = ~x.neg]

\* The signed integer a finite value is when scaled by 10^e.
Scaled(x, e) == (IF x.neg THEN -1 ELSE 1) * x.n * Pow10(e - x.e)

NumAdd(a, b) ==
    IF a.kind = "nan" \/ b.kind = "nan" THEN NaN
    ELSE IF a.kind = "inf" /\ b.kind = "inf"
        THEN (IF a.neg = b.neg THEN a ELSE NaN)
    ELSE IF a.kind = "inf" THEN a
    ELSE IF b.kind = "inf" THEN b
    ELSE LET e == IF a.e > b.e THEN a.e ELSE b.e
             s == Scaled(a, e) + Scaled(b, e)
         IN  IF s = 0 THEN Fin(a.neg /\ b.neg, 0, 0)
             ELSE IF s < 0 THEN Norm(TRUE, -s, e)
             ELSE Norm(FALSE, s, e)

NumMul(a, b) ==
    LET neg == a.neg # b.neg
    IN  IF a.kind = "nan" \/ b.kind = "nan" THEN NaN
        ELSE IF a.kind = "inf" \/ b.kind = "inf"
            THEN (IF (a.kind = "fin" /\ a.n = 0) \/ (b.kind = "fin" /\ b.n = 0)
                  THEN NaN ELSE Inf(neg))
        ELSE IF a.n = 0 \/ b.n = 0 THEN Fin(neg, 0, 0)
        ELSE Norm(neg, a.n * b.n, a.e + b.e)

\* The digits of p / q, one at a time: m is the significand so far, r the
\* remainder, e the fraction digits produced.  An expansion that ends is exact;
\* one that does not is rounded to nearest once m has SigDigits digits.
RECURSIVE Quotient(_, _, _, _, _)
Quotient(neg, m, r, q, e) ==
    IF r = 0 THEN Norm(neg, m, e)
    ELSE IF m >= Pow10(SigDigits - 1)
        THEN Norm(neg, IF 2 * r >= q THEN m + 1 ELSE m, e)
    ELSE Quotient(neg, 10 * m + ((10 * r) \div q), (10 * r) % q, q, e + 1)

NumDiv(a, b) ==
    LET neg == a.neg # b.neg
    IN  IF a.kind = "nan" \/ b.kind = "nan" THEN NaN
        ELSE IF a.kind = "inf" THEN (IF b.kind = "inf" THEN NaN ELSE Inf(neg))
        ELSE IF b.kind = "inf" THEN Fin(neg, 0, 0)
        ELSE IF b.n = 0 THEN (IF a.n = 0 THEN NaN ELSE Inf(neg))
        ELSE IF a.n = 0 THEN Fin(neg, 0, 0)
        ELSE LET p == a.n * Pow10(b.e)
                 q == b.n * Pow10(a.e)
             IN  Quotient(neg, p \div q, p % q, q, 0)

\* ------------------------------------------------------- helper functions

\* toLocaleString: String(num).replace(/(?<!\..*)(\d)(?=(?:\d{3})+(?:\.|$))/g, "$1 ")
\* on the characters of String(num).  The pattern matches the digit at i when no
\* point stands before it and a positive multiple of three digits follows it up
\* to a point or the end of the string.
SeparatorAfter(cs, i) ==
    /\ cs[i] \in DigitSet
    /\ \A j \in 1..(i - 1) : cs[j] # "."
    /\ \E m \in 1..((Len(cs) - i) \div 3) :
        /\ \A j \in (i + 1)..(i + 3 * m) : cs[j] \in DigitSet
        /\ (i + 3 * m = Len(cs) \/ cs[i + 3 * m + 1] = ".")

RECURSIVE InsertSeparators(_, _)
InsertSeparators(cs, i) ==
    IF i > Len(cs) THEN <<>>
    ELSE <<cs[i]>> \o (IF SeparatorAfter(cs, i) THEN <<" ">> ELSE <<>>)
                   \o InsertSeparators(cs, i + 1)

\* Mutation of toLocaleString: the look-behind for a point left out, so that
\* the digits after the point are grouped too.
RECURSIVE InsertSeparators_IgnoringPoint(_, _)
InsertSeparators_IgnoringPoint(cs, i) ==
    IF i > Len(cs) THEN <<>>
    ELSE <<cs[i]>>
         \o (IF /\ cs[i] \in DigitSet
                /\ \E m \in 1..((Len(cs) - i) \div 3) :
                    /\ \A j \in (i + 1)..(i + 3 * m) : cs[j] \in DigitSet
                    /\ (i + 3 * m = Len(cs) \/ cs[i + 3 * m + 1] = ".")
             THEN <<" ">> ELSE <<>>)
         \o InsertSeparators_IgnoringPoint(cs, i + 1)

toLocaleString_GroupsFraction(cs) == InsertSeparators_IgnoringPoint(cs, 1)

toLocaleString(cs) == InsertSeparators(cs, 1)

\* removeSpaces: num.toString().replace(/\s/g, "")
removeSpaces(v) == SelectSeq(ToStr(v), LAMBDA c : c # " ")

\* Mutation of math: the operands of the subtraction exchanged.
math_SwappedSubtraction(a, b, sign) ==
    CASE sign = ADD -> NumAdd(a, b)
      [] sign = SUB -> NumAdd(b, Negate(a))
      [] sign = MUL -> NumMul(a, b)
      [] sign = DIV -> NumDiv(a, b)
      [] OTHER -> b

\* math(a, b, sign)
math(a, b, sign) ==
    CASE sign = ADD -> NumAdd(a, b)
      [] sign = SUB -> NumAdd(a, Negate(b))
      [] sign = MUL -> NumMul(a, b)
      [] sign = DIV -> NumDiv(a, b)
      [] OTHER -> b

\* Math.trunc(x)
Trunc(x) == IF x.kind = "fin" THEN Fin(x.neg, x.n \div Pow10(x.e), 0) ELSE x

HexChars ==
    <<"0", "1", "2", "3", "4", "5", "6", "7", "8", "9", "A", "B", "C", "D", "E", "F">>

RECURSIVE NatToHex(_)
NatToHex(n) ==
    IF n < 16 THEN <<HexChars[n + 1]>>
    ELSE Append(NatToHex(n \div 16), HexChars[(n % 16) + 1])

\* intValue.toString(16).toUpperCase()
ToUpperHex(x) ==
    IF x.kind = "nan" THEN <<"N", "A", "N">>
    ELSE IF x.kind = "inf"
        THEN (IF x.neg THEN <<"-">> ELSE <<>>) \o <<"I", "N", "F", "I", "N", "I", "T", "Y">>
    ELSE IF x.n = 0 THEN <<"0">>
    ELSE (IF x.neg THEN <<"-">> ELSE <<>>) \o NatToHex(x.n)

\* --------------------------------------------------------------- handlers
\* Each handler is the function from the calc of the render it closes over to
\* the calc it passes to setCalc (the same calc when it calls nothing).

\* useState<CalcState>({ sign: "", num: 0, res: 0 })
InitialCalc == [sign |-> "", num |-> NumZero, res |-> NumZero]

\* Mutation of numClickHandler: res kept whether or not an operator is pending.
numClickHandler_KeepsResult(c, btn) ==
    LET value == <<btn>>
    IN  IF Len(removeSpaces(c.num)) < MaxOperandChars
        THEN [c EXCEPT
                !.num =
                    IF c.num = NumZero /\ value = <<"0">> THEN Str(<<"0">>)
                    ELSE IF /\ IsInteger(Number(removeSpaces(c.num)))
                            /\ ~Includes(ToStr(c.num), ".")
                        THEN Str(toLocaleString(NumberToString(
                                 Number(removeSpaces(Str(ToStr(c.num) \o value))))))
                    ELSE Str(toLocaleString(ToStr(c.num) \o value))]
        ELSE c

numClickHandler(c, btn) ==
    LET value == <<btn>>
    IN  IF Len(removeSpaces(c.num)) < MaxOperandChars
        THEN [c EXCEPT
                !.num =
                    IF c.num = NumZero /\ value = <<"0">> THEN Str(<<"0">>)
                    ELSE IF /\ IsInteger(Number(removeSpaces(c.num)))
                            /\ ~Includes(ToStr(c.num), ".")
                        THEN Str(toLocaleString(NumberToString(
                                 Number(removeSpaces(Str(ToStr(c.num) \o value))))))
                    ELSE Str(toLocaleString(ToStr(c.num) \o value)),
                !.res = IF c.sign = "" THEN NumZero ELSE c.res]
        ELSE c

\* Mutation of comaClickHandler: the point appended without looking for one.
comaClickHandler_NoCheck(c, btn) ==
    [c EXCEPT !.num = Str(ToStr(c.num) \o <<btn>>)]

comaClickHandler(c, btn) ==
    LET value == <<btn>>
    IN  [c EXCEPT !.num = IF ~Includes(ToStr(c.num), ".")
                          THEN Str(ToStr(c.num) \o value) ELSE c.num]

\* Mutation of signClickHandler: the pending operation dropped, not resolved.
signClickHandler_NoFold(c, btn) ==
    [sign |-> btn,
     res  |-> IF Truthy(c.num) THEN c.num ELSE c.res,
     num  |-> NumZero]

\* Mutation of signClickHandler: a pending operator kept, not replaced.
signClickHandler_KeepsPending(c, btn) ==
    IF c.sign # "" /\ Truthy(c.num) /\ Truthy(c.res)
    THEN LET result == math(Number(removeSpaces(c.res)),
                            Number(removeSpaces(c.num)), c.sign)
         IN  [sign |-> btn,
              res  |-> Str(toLocaleString(NumberToString(result))),
              num  |-> NumZero]
    ELSE [sign |-> IF c.sign # "" THEN c.sign ELSE btn,
          res  |-> IF Truthy(c.num) THEN c.num ELSE c.res,
          num  |-> NumZero]

\* Mutation of signClickHandler: the operand moved to res even when it is empty.
signClickHandler_AlwaysMovesOperand(c, btn) ==
    IF c.sign # "" /\ Truthy(c.num) /\ Truthy(c.res)
    THEN LET result == math(Number(removeSpaces(c.res)),
                            Number(removeSpaces(c.num)), c.sign)
         IN  [sign |-> btn,
              res  |-> Str(toLocaleString(NumberToString(result))),
              num  |-> NumZero]
    ELSE [sign |-> btn,
          res  |-> c.num,
          num  |-> NumZero]

signClickHandler(c, btn) ==
    IF c.sign # "" /\ Truthy(c.num) /\ Truthy(c.res)
    THEN LET result == math(Number(removeSpaces(c.res)),
                            Number(removeSpaces(c.num)), c.sign)
         IN  [sign |-> btn,
              res  |-> Str(toLocaleString(NumberToString(result))),
              num  |-> NumZero]
    ELSE [sign |-> btn,
          res  |-> IF Truthy(c.num) THEN c.num ELSE c.res,
          num  |-> NumZero]

\* Mutation of EqualsResult: the operand compared with the number 0, which a
\* typed operand never is.
EqualsResult_ComparesNumber(c) ==
    IF c.num = NumZero /\ c.sign = DIV THEN zeroDivisionError
    ELSE toLocaleString(NumberToString(
             math(Number(removeSpaces(c.res)), Number(removeSpaces(c.num)), c.sign)))

\* The result equalsClickHandler computes when calc.sign && calc.num.
EqualsResult(c) ==
    IF c.num = Str(<<"0">>) /\ c.sign = DIV THEN zeroDivisionError
    ELSE toLocaleString(NumberToString(
             math(Number(removeSpaces(c.res)), Number(removeSpaces(c.num)), c.sign)))

\* `${removeSpaces(calc.res)} ${calc.sign} ${removeSpaces(calc.num)} = ${result}`
Expression(c, result) ==
    removeSpaces(c.res) \o <<" ", c.sign, " ">> \o removeSpaces(c.num)
        \o <<" ", "=", " ">> \o result

\* Mutation of equalsClickHandler: the expression added to the end of the history.
equalsClickHandler_AppendsLast(c, h) ==
    IF c.sign # "" /\ Truthy(c.num)
    THEN LET result == EqualsResult(c)
         IN  [calc    |-> [sign |-> "", res |-> Str(result), num |-> NumZero],
              history |-> IF result # zeroDivisionError
                          THEN h \o <<Expression(c, result)>> ELSE h]
    ELSE [calc |-> c, history |-> h]

\* Mutation of equalsClickHandler: the operator left pending.
equalsClickHandler_KeepsOperator(c, h) ==
    IF c.sign # "" /\ Truthy(c.num)
    THEN LET result == EqualsResult(c)
         IN  [calc    |-> [sign |-> c.sign, res |-> Str(result), num |-> NumZero],
              history |-> IF result # zeroDivisionError
                          THEN <<Expression(c, result)>> \o h ELSE h]
    ELSE [calc |-> c, history |-> h]

\* Mutation of equalsClickHandler: the operand not tested.
equalsClickHandler_NoOperandTest(c, h) ==
    IF c.sign # ""
    THEN LET result == EqualsResult(c)
         IN  [calc    |-> [sign |-> "", res |-> Str(result), num |-> NumZero],
              history |-> IF result # zeroDivisionError
                          THEN <<Expression(c, result)>> \o h ELSE h]
    ELSE [calc |-> c, history |-> h]

\* equalsClickHandler sets calc and history; it returns both.
equalsClickHandler(c, h) ==
    IF c.sign # "" /\ Truthy(c.num)
    THEN LET result == EqualsResult(c)
         IN  [calc    |-> [sign |-> "", res |-> Str(result), num |-> NumZero],
              history |-> IF result # zeroDivisionError
                          THEN <<Expression(c, result)>> \o h ELSE h]
    ELSE [calc |-> c, history |-> h]

\* Mutation of invertClickHandler: the operand negated, the result kept.
invertClickHandler_OperandOnly(c) ==
    [c EXCEPT
        !.num = IF Truthy(c.num)
                THEN Str(toLocaleString(NumberToString(Negate(Number(removeSpaces(c.num))))))
                ELSE NumZero]

invertClickHandler(c) ==
    [c EXCEPT
        !.num = IF Truthy(c.num)
                THEN Str(toLocaleString(NumberToString(Negate(Number(removeSpaces(c.num))))))
                ELSE NumZero,
        !.res = IF Truthy(c.res)
                THEN Str(toLocaleString(NumberToString(Negate(Number(removeSpaces(c.res))))))
                ELSE NumZero]

\* Mutation of resetClickHandler: the result kept.
resetClickHandler_KeepsResult == [sign |-> "", num |-> NumZero, res |-> Str(<<"0">>)]

resetClickHandler == InitialCalc

\* Mutation of backspaceClickHandler: an emptied operand left as the string "0".
backspaceClickHandler_LeavesZeroString(c) ==
    IF Truthy(c.num) /\ c.num # NumZero
    THEN LET full   == removeSpaces(c.num)
             numStr == SubSeq(full, 1, Len(full) - 1)
         IN  [c EXCEPT !.num = IF Len(numStr) = 0 THEN Str(<<"0">>)
                               ELSE Str(toLocaleString(numStr))]
    ELSE c

backspaceClickHandler(c) ==
    IF Truthy(c.num) /\ c.num # NumZero
    THEN LET full   == removeSpaces(c.num)
             numStr == SubSeq(full, 1, Len(full) - 1)
         IN  [c EXCEPT !.num = IF Len(numStr) = 0 THEN NumZero
                               ELSE Str(toLocaleString(numStr))]
    ELSE c

\* Mutation of hexPressHandler: the result converted whenever there is one.
hexPressHandler_PrefersResult(c) ==
    LET valueToConvert == Number(removeSpaces(IF Truthy(c.res) THEN c.res ELSE c.num))
        intValue       == Trunc(valueToConvert)
    IN  <<"0", "x">> \o ToUpperHex(intValue)

\* hexPressHandler: the string it passes to setHexDisplay.
hexPressHandler(c) ==
    LET valueToConvert == Number(removeSpaces(IF Truthy(c.num) THEN c.num ELSE c.res))
        intValue       == Trunc(valueToConvert)
    IN  <<"0", "x">> \o ToUpperHex(intValue)

\* Mutation of buttonClickHandler: no early return in the Error state.
buttonClickHandler_NoErrorGuard(c, h, btn) ==
    CASE btn = "AC"       -> [calc |-> resetClickHandler, history |-> h]
      [] btn = "+-"       -> [calc |-> invertClickHandler(c), history |-> h]
      [] btn = "BKSP"     -> [calc |-> backspaceClickHandler(c), history |-> h]
      [] btn = "="        -> equalsClickHandler(c, h)
      [] btn \in SignKeys -> [calc |-> signClickHandler(c, btn), history |-> h]
      [] btn = "."        -> [calc |-> comaClickHandler(c, btn), history |-> h]
      [] btn \in DigitSet -> [calc |-> numClickHandler(c, btn), history |-> h]
      [] OTHER            -> [calc |-> c, history |-> h]

\* buttonClickHandler(btn): the calc and history after the click.
buttonClickHandler(c, h, btn) ==
    IF c.res = Str(zeroDivisionError) /\ btn # "AC"
    THEN [calc |-> resetClickHandler, history |-> h]
    ELSE CASE btn = "AC"       -> [calc |-> resetClickHandler, history |-> h]
           [] btn = "+-"       -> [calc |-> invertClickHandler(c), history |-> h]
           [] btn = "BKSP"     -> [calc |-> backspaceClickHandler(c), history |-> h]
           [] btn = "="        -> equalsClickHandler(c, h)
           [] btn \in SignKeys -> [calc |-> signClickHandler(c, btn), history |-> h]
           [] btn = "."        -> [calc |-> comaClickHandler(c, btn), history |-> h]
           [] btn \in DigitSet -> [calc |-> numClickHandler(c, btn), history |-> h]
           [] OTHER            -> [calc |-> c, history |-> h]

\* Mutation of PrimaryDisplay: the result shown in place of a blank.
PrimaryDisplay_NeverBlank(c, hexView, hexText) ==
    IF hexView THEN hexText
    ELSE IF Truthy(c.num) THEN ToStr(c.num)
    ELSE ToStr(c.res)

\* The primary and secondary props of Screen.
PrimaryDisplay(c, hexView, hexText) ==
    IF hexView THEN hexText
    ELSE IF c.sign # "" THEN (IF c.num = NumZero THEN <<"U+00A0">> ELSE ToStr(c.num))
    ELSE IF Truthy(c.num) THEN ToStr(c.num)
    ELSE ToStr(c.res)

SecondaryDisplay(c, hexView) ==
    IF c.sign # "" /\ ~hexView THEN ToStr(c.res) \o <<" ", c.sign>> ELSE <<>>

\* ------------------------------------------------------------------ state

\* Every value of btnValues.flat(): the digits as their characters.
Buttons == DigitSet \cup SignKeys \cup {".", "=", "+-", "AC", "BKSP", "HEX"}

VARIABLES
    calc,        \* useState<CalcState>
    history,     \* useState<string[]>
    isHexView,   \* useState(false)
    hexDisplay,  \* useState("0")
    last,        \* history variable: the event handled last ("" before the first)
    prev,        \* history variable: calc and history before that event
    chain,       \* history variable: the keys since the last fresh state, read as
                 \* n1 op1 n2 op2 ... (see ChainAfter)
    keys         \* history variable: events handled so far

\* toLocaleString and removeSpaces applied to an operand string
VARIABLES
    operand,     \* the string given to toLocaleString
    formatted,   \* toLocaleString(operand), once computed (<<>> before)
    stripped     \* removeSpaces(formatted), once computed (<<>> before)

\* The OCR panel (OcrComponent), in its Paddle or its Tesseract version
VARIABLES
    engine,       \* "Paddle" (part_000) or "Tesseract" (part_002)
    mounted,      \* the component is mounted
    text,         \* useState text: a sequence of tokens
    loading,      \* useState loading
    imageLoaded,  \* useState imageLoaded
    engineReady,  \* Paddle: isModelLoaded; Tesseract: worker !== null
    canvas,       \* what the canvas holds: the number of an image, 0 when blank
    creation,     \* ocr.init() / createWorker(): "pending", "done" or "failed"
    active,       \* Tesseract: the flag of the worker effect
    localWorker,  \* Tesseract: the effect's localWorker is not null
    terminated,   \* Tesseract: terminate() has been called on the worker
    calls,        \* the recognize() calls not settled yet
    started,      \* number of recognize() calls made
    images,       \* number of images loaded
    ocrLast,      \* history variable: the last event of the panel
    ocrPrev,      \* history variable: the panel before that event
    textOf        \* history variable: the image whose recognition the text
                  \* shows, 0 when the text is no result of a recognition

\* The color picker (EyeDropper)
VARIABLES
    hasEyeDropper,  \* 'EyeDropper' in window
    checked,        \* the support effect has run
    pickedColor,    \* useState pickedColor: <<>> for null, else <<color>>
    error,          \* useState error: NoError for null, else the message
    isSupported,    \* useState isSupported
    isPicking,      \* useState isPicking
    pickers,        \* number of open() promises not settled yet
    picks,          \* number of open() calls made
    pickLast,       \* history variable: the last event of the picker
    pickPrev        \* history variable: the picker before that event

\* The countdown timer (PomodoroTimer). Minutes are counted in hundredths of a
\* minute and seconds in tenths of a second, so that minutes * 60 is exact for
\* the fractional durations the inputs accept.
VARIABLES
    workMinutes,   \* useState workMinutes, in hundredths of a minute
    breakMinutes,  \* useState breakMinutes, in hundredths of a minute
    timeLeft,      \* useState timeLeft, in tenths of a second
    isRunning,     \* useState isRunning
    timers,        \* number of intervals set and not cleared
    inputs,        \* history variable: number of user events handled
    timerLast,     \* history variable: the last event of the timer
    timerPrev      \* history variable: the timer before that event

\* The navigation dock (FloatingDock) and the browser's localStorage
VARIABLES
    stored,       \* localStorage.getItem('floatingDockSide'), "null" when absent
    dockMounted,  \* the component is mounted
    side,         \* useState side
    hovering,     \* useState hovering
    scrolledTo,   \* the section last scrolled into view by the dock, or "none"
    chosen,       \* history variable: the side last set by the user, or "none"
    dockLast,     \* history variable: the last event of the dock
    dockPrev      \* history variable: the dock before that event

\* The color helpers rgbToHex and hexToRgba applied to their arguments
VARIABLES
    color,        \* the channels r, g, b given to rgbToHex
    colorHex,     \* rgbToHex of them, once computed (<<>> before)
    rgba,         \* <<hexToRgba(hex)>>, once computed (<<>> before)
    shorthand,    \* a shorthand "#abc" given to hexToRgba
    parsedShort,  \* <<hexToRgba(shorthand)>>, once computed (<<>> before)
    parsedLong    \* <<hexToRgba of the shorthand written out>>, once computed

calculatorVars == <<calc, history, isHexView, hexDisplay, last, prev, chain, keys>>

formatVars == <<operand, formatted, stripped>>

ocrState == <<engine, mounted, text, loading, imageLoaded, engineReady, canvas>>

ocrWorker == <<creation, active, localWorker, terminated>>

ocrVars == <<ocrState, ocrWorker, calls, started, images, ocrLast, ocrPrev, textOf>>

pickerVars == <<hasEyeDropper, checked, pickedColor, error, isSupported, isPicking,
                pickers, picks, pickLast, pickPrev>>

timerVars == <<workMinutes, breakMinutes, timeLeft, isRunning, timers, inputs,
               timerLast, timerPrev>>

dockVars == <<stored, dockMounted, side, hovering, scrolledTo, chosen, dockLast, dockPrev>>

colorVars == <<color, colorHex, rgba, shorthand, parsedShort, parsedLong>>

vars == <<calculatorVars, formatVars, ocrVars, pickerVars, timerVars, dockVars, colorVars>>

\* What an event of one component leaves alone: the state of the others.
exceptCalculator == <<formatVars, ocrVars, pickerVars, timerVars, dockVars, colorVars>>

exceptFormat == <<calculatorVars, ocrVars, pickerVars, timerVars, dockVars, colorVars>>

exceptOcr == <<calculatorVars, formatVars, pickerVars, timerVars, dockVars, colorVars>>

exceptPicker == <<calculatorVars, formatVars, ocrVars, timerVars, dockVars, colorVars>>

exceptTimer == <<calculatorVars, formatVars, ocrVars, pickerVars, dockVars, colorVars>>

exceptDock == <<calculatorVars, formatVars, ocrVars, pickerVars, timerVars, colorVars>>

exceptColor == <<calculatorVars, formatVars, ocrVars, pickerVars, timerVars, dockVars>>

\* A state with no pending operator and no operand, outside the Error state: the
\* digits typed next start a new calculation.
Fresh(c) == c.sign = "" /\ c.num = NumZero /\ c.res # Str(zeroDivisionError)

ChainFresh == [ok |-> TRUE, op |-> "", acc |-> Fin(FALSE, 0, 0), lit |-> <<>>]

ChainBroken == [ok |-> FALSE, op |-> "", acc |-> Fin(FALSE, 0, 0), lit |-> <<>>]

\* The keys pressed since the last fresh state as an expression n1 op1 n2 ...:
\* lit is the literal of the operand being typed (digits, then at most one
\* point), op the operator before it and acc the value of the expression to
\* the left of op, folded from the left.  ok is FALSE once a key falls outside
\* that shape.  c is the calc before the click of btn and c2 the calc after it.
ChainAfter(ch, c, c2, btn) ==
    IF Fresh(c2) THEN ChainFresh
    ELSE IF ~ch.ok THEN ChainBroken
    ELSE IF btn \in DigitSet
        THEN (IF Len(ch.lit) < MaxOperandChars
              THEN [ch EXCEPT !.lit = ch.lit \o <<btn>>] ELSE ChainBroken)
    ELSE IF btn = "."
        THEN (IF ch.lit # <<>> /\ ~Includes(ch.lit, ".")
                 /\ Len(ch.lit) < MaxOperandChars - 1
              THEN [ch EXCEPT !.lit = ch.lit \o <<".">>] ELSE ChainBroken)
    ELSE IF btn \in SignKeys
        THEN (IF ch.lit = <<>> THEN ChainBroken
              ELSE [ok  |-> TRUE,
                    op  |-> btn,
                    acc |-> IF ch.op = "" THEN Number(ch.lit)
                            ELSE math(ch.acc, Number(ch.lit), ch.op),
                    lit |-> <<>>])
    ELSE ChainBroken

InitCalculator ==
    /\ calc = InitialCalc
    /\ history = <<>>
    /\ isHexView = FALSE
    /\ hexDisplay = <<"0">>
    /\ last = ""
    /\ prev = [calc |-> InitialCalc, history |-> <<>>]
    /\ chain = ChainFresh
    /\ keys = 0

\* onClick={() => buttonClickHandler(btn)}
Click(btn) ==
    /\ keys < MaxKeys
    /\ LET r == buttonClickHandler(calc, history, btn)
       IN  /\ calc' = r.calc
           /\ history' = r.history
           /\ chain' = ChainAfter(chain, calc, r.calc, btn)
    /\ last' = btn
    /\ prev' = [calc |-> calc, history |-> history]
    /\ keys' = keys + 1
    /\ UNCHANGED <<isHexView, hexDisplay>>
    /\ UNCHANGED exceptCalculator

ClickDigit == \E d \in DigitKeys : Click(d)

ClickComa == Click(".")

ClickSign == \E s \in SignKeys : Click(s)

ClickEquals == Click("=")

ClickInvert == Click("+-")

ClickReset == Click("AC")

ClickBackspace == Click("BKSP")

ClickHex == Click("HEX")

\* onMouseDown / onTouchStart of the HEX button
HexPress ==
    /\ keys < MaxKeys
    /\ hexDisplay' = hexPressHandler(calc)
    /\ isHexView' = TRUE
    /\ last' = "HEX down"
    /\ prev' = [calc |-> calc, history |-> history]
    /\ keys' = keys + 1
    /\ UNCHANGED <<calc, history, chain>>
    /\ UNCHANGED exceptCalculator

\* onMouseUp / onTouchEnd of the HEX button
HexRelease ==
    /\ keys < MaxKeys
    /\ isHexView' = FALSE
    /\ last' = "HEX up"
    /\ prev' = [calc |-> calc, history |-> history]
    /\ keys' = keys + 1
    /\ UNCHANGED <<calc, history, hexDisplay, chain>>
    /\ UNCHANGED exceptCalculator

Next ==
    \/ ClickDigit
    \/ ClickComa
    \/ ClickSign
    \/ ClickEquals
    \/ ClickInvert
    \/ ClickReset
    \/ ClickBackspace
    \/ ClickHex
    \/ HexPress
    \/ HexRelease

\* onClick={() => buttonClickHandler(btn)} of the digit buttons alone: an
\* operand typed from the initial state, up to the cap of numClickHandler and
\* one key past it.
TypeDigit ==
    /\ keys < MaxTyped
    /\ \E d \in TypedKeys :
        LET r == buttonClickHandler(calc, history, d)
        IN  /\ calc' = r.calc
            /\ history' = r.history
            /\ chain' = ChainAfter(chain, calc, r.calc, d)
            /\ last' = d
    /\ prev' = [calc |-> calc, history |-> history]
    /\ keys' = keys + 1
    /\ UNCHANGED <<isHexView, hexDisplay>>
    /\ UNCHANGED exceptCalculator

\* ----------------------------------------------------------------- claims

ErrorState(c) == c.res = Str(zeroDivisionError)

IsZeroValue(x) == x.kind = "fin" /\ x.n = 0

\* The same number, +0 and -0 being the same.
SameValueZero(a, b) == a = b \/ (IsZeroValue(a) /\ IsZeroValue(b))

\* equalsClickHandler's condition calc.sign && calc.num.
EqualsApplies(c) == c.sign # "" /\ Truthy(c.num)

\* The operand of c, once its separators are removed, is a string of digits.
PlainDigits(v) == v.type = "string" /\ removeSpaces(v) # <<>> /\ AllDigits(removeSpaces(v))

\* a sign b on natural numbers, by integer arithmetic.
IntegerResult(a, b, sign) ==
    CASE sign = ADD -> Fin(FALSE, a + b, 0)
      [] sign = SUB -> IF a >= b THEN Fin(FALSE, a - b, 0) ELSE Fin(TRUE, b - a, 0)
      [] sign = MUL -> Fin(FALSE, a * b, 0)
      [] sign = DIV -> Fin(FALSE, a \div b, 0)

CountOf(cs, ch) == Cardinality({i \in 1..Len(cs) : cs[i] = ch})

\* C1: equals pressed with a pending operator and an operand, and no division
\* by zero, stores toLocaleString(math(res, num, sign)) in res, clears sign
\* and num, and puts "<res> <sign> <num> = <result>" in front of the history;
\* on operands that are natural numbers the stored value is the one integer
\* arithmetic gives (2 + 2 = gives 4 and the entry "2 + 2 = 4").
C1_EqualsComputes ==
    LET p == prev.calc
        a == Number(removeSpaces(p.res))
        b == Number(removeSpaces(p.num))
    IN  (/\ last = "="
         /\ EqualsApplies(p)
         /\ ~(p.sign = DIV /\ IsZeroValue(b)))
        => /\ calc.sign = ""
           /\ calc.num = NumZero
           /\ calc.res = Str(toLocaleString(NumberToString(math(a, b, p.sign))))
           /\ history = <<removeSpaces(p.res) \o <<" ", p.sign, " ">>
                            \o removeSpaces(p.num) \o <<" ", "=", " ">>
                            \o ToStr(calc.res)>> \o prev.history
           /\ (/\ PlainDigits(p.res) /\ PlainDigits(p.num)
               /\ p.sign = DIV => a.n % b.n = 0)
              => Number(removeSpaces(calc.res)) = IntegerResult(a.n, b.n, p.sign)

C1_Witness ==
    /\ last = "="
    /\ prev.calc = [sign |-> ADD, num |-> Str(<<"2">>), res |-> Str(<<"2">>)]
    /\ calc = [sign |-> "", num |-> NumZero, res |-> Str(<<"4">>)]
    /\ history = << <<"2", " ", "+", " ", "2", " ", "=", " ", "4">> >>

\* C2: equals pressed with a pending division and the operand "0" leaves the
\* Error state (res the error message, no operator, no operand) and the
\* history as it was.
C2_DivideByZeroIsError ==
    (/\ last = "="
     /\ prev.calc.sign = DIV
     /\ prev.calc.num = Str(<<"0">>))
    => /\ calc = [sign |-> "", num |-> NumZero, res |-> Str(zeroDivisionError)]
       /\ history = prev.history

C2_Witness ==
    /\ last = "="
    /\ prev.calc = [sign |-> DIV, num |-> Str(<<"0">>), res |-> Str(<<"2">>)]
    /\ ErrorState(calc)
    /\ history = <<>>

\* C3: a key sequence n1 op1 n2 op2 ... typed from a fresh state is evaluated
\* from the left with no precedence: while it is typed, sign is the last
\* operator and res the value of the expression to its left; an operator
\* pressed after an operand stores the fold of the pending operation in res,
\* becomes the pending operator and clears the operand; and equals stores the
\* fold (or, on a division by a zero operand, the error message of C2).
C3_LeftFold ==
    /\ (/\ last \in SignKeys
        /\ ~ErrorState(prev.calc)
        /\ prev.calc.sign # "" /\ Truthy(prev.calc.num) /\ Truthy(prev.calc.res))
       => calc = [sign |-> last,
                  res  |-> Str(toLocaleString(NumberToString(
                               math(Number(removeSpaces(prev.calc.res)),
                                    Number(removeSpaces(prev.calc.num)),
                                    prev.calc.sign)))),
                  num  |-> NumZero]
    /\ chain.ok =>
        /\ chain.op # "" =>
            /\ calc.sign = chain.op
            /\ SameValueZero(Number(removeSpaces(calc.res)), chain.acc)
        /\ chain.lit # <<>> =>
            SameValueZero(Number(removeSpaces(calc.num)), Number(chain.lit))
        /\ (chain.op # "" /\ chain.lit # <<>>) =>
            LET fold == math(chain.acc, Number(chain.lit), chain.op)
                eq   == buttonClickHandler(calc, history, "=").calc
            IN  /\ eq.sign = "" /\ eq.num = NumZero
                /\ IF ErrorState(eq)
                   THEN chain.op = DIV /\ IsZeroValue(Number(chain.lit))
                   ELSE SameValueZero(Number(removeSpaces(eq.res)), fold)
                /\ \A s \in SignKeys :
                    LET op == buttonClickHandler(calc, history, s).calc
                    IN  /\ op.sign = s /\ op.num = NumZero
                        /\ SameValueZero(Number(removeSpaces(op.res)), fold)

\* 2 + 2 x 2 = : the history holds "4 x 2 = 8", where precedence would give 6.
C3_Witness ==
    /\ last = "="
    /\ prev.calc = [sign |-> MUL, num |-> Str(<<"2">>), res |-> Str(<<"4">>)]
    /\ calc.res = Str(<<"8">>)
    /\ history = << <<"4", " ", MUL, " ", "2", " ", "=", " ", "8">> >>

\* C4: a digit pressed in the Error state leaves the state that AC and then
\* that digit leave.
C4_ErrorThenDigitIsFreshEntry ==
    (last \in DigitSet /\ ErrorState(prev.calc))
    => LET cleared == buttonClickHandler(prev.calc, prev.history, "AC")
       IN  calc = buttonClickHandler(cleared.calc, cleared.history, last).calc

\* C5: an operator, =, +-, BKSP or AC pressed in the Error state leaves the
\* initial calc and the history as it was.
C5_ErrorAcknowledged ==
    /\ (last \in SignKeys \cup {"=", "+-", "BKSP", "AC"} /\ ErrorState(prev.calc))
       => (calc = InitialCalc /\ history = prev.history)
    /\ ErrorState(calc) =>
        \A btn \in SignKeys \cup {"=", "+-", "BKSP", "AC"} :
            buttonClickHandler(calc, history, btn)
                = [calc |-> InitialCalc, history |-> history]

C5_Witness ==
    /\ last = "+-"
    /\ ErrorState(prev.calc)
    /\ calc = InitialCalc

\* A string that names no finite number: it holds a letter of Infinity or NaN.
NamesInfinityOrNaN(cs) == Includes(cs, "I") \/ Includes(cs, "N")

\* C6: a pending division resolved with an operand whose value is zero, by =
\* or by a following operator, leaves the Error state, and neither res nor
\* an entry of the history ever holds Infinity or NaN.
C6_NoNumericDivisionByZero ==
    /\ (/\ last \in SignKeys \cup {"="}
        /\ EqualsApplies(prev.calc)
        /\ last \in SignKeys => Truthy(prev.calc.res)
        /\ prev.calc.sign = DIV
        /\ IsZeroValue(Number(removeSpaces(prev.calc.num))))
       => ErrorState(calc)
    /\ ~NamesInfinityOrNaN(ToStr(calc.res))
    /\ \A i \in 1..Len(history) : ~NamesInfinityOrNaN(history[i])

\* An optional minus sign, then digits, separators and at most one point,
\* with at least one digit.
WellFormedNumeral(cs) ==
    LET body == IF cs # <<>> /\ cs[1] = "-" THEN Tail(cs) ELSE cs
    IN  /\ \A i \in 1..Len(body) : body[i] \in DigitSet \cup {" ", "."}
        /\ \E i \in 1..Len(body) : body[i] \in DigitSet
        /\ CountOf(body, ".") <= 1

\* C7: num is the number 0 or a well-formed numeral, and res is the number 0,
\* a well-formed numeral or the error message.
C7_ValidState ==
    /\ calc.num = NumZero \/ (calc.num.type = "string" /\ WellFormedNumeral(ToStr(calc.num)))
    /\ \/ calc.res = NumZero
       \/ ErrorState(calc)
       \/ (calc.res.type = "string" /\ WellFormedNumeral(ToStr(calc.res)))

\* C8: the history changes only when equals computes a result, and then by one
\* entry put in front of the entries it had, which keep their order; every
\* other event (and an equals that divides by zero, or applies to nothing)
\* leaves it as it was.
C8_HistoryAppendOnly ==
    /\ IF last = "=" /\ EqualsApplies(prev.calc) /\ ~ErrorState(calc)
       THEN Len(history) = Len(prev.history) + 1 /\ Tail(history) = prev.history
       ELSE history = prev.history
    /\ LET h == buttonClickHandler(calc, history, "=").history
       IN  h = history \/ (Len(h) = Len(history) + 1 /\ Tail(h) = history)

\* An entry put in front by equals, and kept by the operator and the digit
\* pressed after it.
C8_Witness ==
    /\ last \in DigitSet
    /\ Len(history) = 1
    /\ history = prev.history
    /\ EqualsApplies(calc)

\* C9: AC leaves the initial calc, whatever the state it is pressed in.
C9_ClearResets ==
    /\ last = "AC" => calc = InitialCalc
    /\ buttonClickHandler(calc, history, "AC").calc = InitialCalc

C9_Witness ==
    /\ last = "AC"
    /\ ErrorState(prev.calc)
    /\ calc = InitialCalc

\* C10: num never holds two decimal points.
C10_OneDecimalPoint == CountOf(ToStr(calc.num), ".") <= 1

\* The point pressed on an operand that has one.
C10_Witness ==
    /\ last = "."
    /\ Includes(ToStr(prev.calc.num), ".")
    /\ calc.num = prev.calc.num

\* C11: the point pressed on an operand that holds one changes nothing; pressed
\* on an operand that holds none it appends one point to the operand and
\* changes nothing else.
C11_DecimalPoint ==
    last = "."
    => /\ history = prev.history
       /\ IF Includes(ToStr(prev.calc.num), ".")
          THEN calc = prev.calc
          ELSE calc = [prev.calc EXCEPT !.num = Str(ToStr(prev.calc.num) \o <<".">>)]

\* The digits of an operand: its characters but separators, sign and point.
DigitCount(v) == Len(SelectSeq(ToStr(v), LAMBDA c : c \in DigitSet))

\* C12: num never holds more than 16 digits, and a digit pressed on an operand
\* of 16 digits leaves calc and the history as they were.
C12_SixteenDigitCap ==
    /\ DigitCount(calc.num) <= MaxOperandChars
    /\ (last \in DigitSet /\ DigitCount(prev.calc.num) = MaxOperandChars)
       => (calc = prev.calc /\ history = prev.history)

\* C13: while only digits have been typed since the initial state, at most 16
\* of them, num without its separators is the sequence of the digits typed
\* (its leading zeros aside, which numClickHandler replaces).
C13_OperandIsDigitsTyped ==
    (/\ chain.ok /\ chain.op = ""
     /\ chain.lit # <<>> /\ AllDigits(chain.lit)
     /\ Len(chain.lit) <= MaxOperandChars)
    => removeSpaces(calc.num) = StripLeadingZeros(chain.lit)

\* C14: pressing and releasing HEX (the press, the release and the click that
\* follows them) leaves calc and the history as they were, and the displays
\* after the release are the displays before the press.
C14_HexPeekChangesNothing ==
    /\ last \in {"HEX down", "HEX up", "HEX"}
       => (calc = prev.calc /\ history = prev.history)
    /\ LET click == buttonClickHandler(calc, history, "HEX")
       IN  /\ click = [calc |-> calc, history |-> history]
           /\ PrimaryDisplay(click.calc, FALSE, hexPressHandler(calc))
                  = PrimaryDisplay(calc, FALSE, hexDisplay)
           /\ SecondaryDisplay(click.calc, FALSE) = SecondaryDisplay(calc, FALSE)

\* The number an uppercase hexadecimal numeral names.
RECURSIVE HexToNat(_)
HexToNat(hs) ==
    IF hs = <<>> THEN 0
    ELSE 16 * HexToNat(SubSeq(hs, 1, Len(hs) - 1))
         + (CHOOSE i \in 0..15 : HexChars[i + 1] = hs[Len(hs)])

\* hs is "0x", a minus sign when neg, and the uppercase hexadecimal numeral of
\* n with no leading zero.
IsHexOf(hs, neg, n) ==
    LET body == SubSeq(hs, 3, Len(hs))
        mag  == IF neg THEN Tail(body) ELSE body
    IN  /\ Len(hs) >= 3 /\ hs[1] = "0" /\ hs[2] = "x"
        /\ neg => (body # <<>> /\ body[1] = "-")
        /\ mag # <<>>
        /\ \A i \in 1..Len(mag) : \E k \in 1..16 : HexChars[k] = mag[i]
        /\ Len(mag) > 1 => mag[1] # "0"
        /\ HexToNat(mag) = n

\* The value the displays show: the operand when one is entered, the result
\* otherwise.
ActiveValue(c) == IF c.num # NumZero THEN c.num ELSE c.res

\* The digits of a well-formed numeral before its point, as a number.
IntegerPart(cs) ==
    LET plain == SelectSeq(cs, LAMBDA ch : ch \notin {" ", "-"})
        dot   == IndexOf(plain, ".")
    IN  DigitsToNat(IF dot = 0 THEN plain ELSE SubSeq(plain, 1, dot - 1))

C16_ToggleTwiceRestores ==
    LET once  == buttonClickHandler(calc, history, "+-")
        twice == buttonClickHandler(once.calc, once.history, "+-")
    IN  /\ twice.calc.num = calc.num
        /\ twice.calc.res = calc.res

\* The value of a field: Number(removeSpaces(v)).
ValueOf(v) == Number(removeSpaces(v))

\* C17: +- negates the value of num and the value of res (both when both are
\* not zero; a zero value stays zero, and the number 0 of an empty field stays
\* the number 0) and leaves sign and the history as they were.  The error
\* message in res is no value: what +- does to it is C5.
C17_ToggleNegates ==
    last = "+-"
    => /\ calc.sign = prev.calc.sign
       /\ history = prev.history
       /\ SameValueZero(ValueOf(calc.num), Negate(ValueOf(prev.calc.num)))
       /\ IsZeroValue(ValueOf(prev.calc.num)) => IsZeroValue(ValueOf(calc.num))
       /\ prev.calc.num = NumZero => calc.num = NumZero
       /\ PlainDigits(prev.calc.num) /\ ~IsZeroValue(ValueOf(prev.calc.num))
          => removeSpaces(calc.num) = <<"-">> \o removeSpaces(prev.calc.num)
       /\ ~ErrorState(prev.calc) =>
           /\ SameValueZero(ValueOf(calc.res), Negate(ValueOf(prev.calc.res)))
           /\ IsZeroValue(ValueOf(prev.calc.res)) => IsZeroValue(ValueOf(calc.res))
           /\ prev.calc.res = NumZero => calc.res = NumZero
           /\ PlainDigits(prev.calc.res) /\ ~IsZeroValue(ValueOf(prev.calc.res))
              => removeSpaces(calc.res) = <<"-">> \o removeSpaces(prev.calc.res)

\* +- pressed on 2 + 2: both the operand and the result become -2.
C17_Witness ==
    /\ last = "+-"
    /\ prev.calc = [sign |-> ADD, num |-> Str(<<"2">>), res |-> Str(<<"2">>)]
    /\ calc = [sign |-> ADD, num |-> Str(<<"-", "2">>), res |-> Str(<<"-", "2">>)]
    /\ history = prev.history

\* The characters typed into an operand: none for the number 0 of an empty one.
Entered(v) == IF v = NumZero THEN <<>> ELSE removeSpaces(v)

\* What C18 says of a BKSP pressed on the calc p that leaves the calc c: the
\* last character of the operand is removed (the rest formatted anew), an
\* operand of one character becomes the number 0, an empty operand leaves calc
\* and the displays as they were, and sign, res and the history are untouched.
BackspaceRemovesLast(p, c) ==
    /\ c.sign = p.sign
    /\ c.res = p.res
    /\ history = prev.history
    /\ IF p.num = NumZero
       THEN /\ c = p
            /\ PrimaryDisplay(c, isHexView, hexDisplay)
                   = PrimaryDisplay(p, isHexView, hexDisplay)
            /\ SecondaryDisplay(c, isHexView) = SecondaryDisplay(p, isHexView)
       ELSE /\ Entered(c.num) = SubSeq(Entered(p.num), 1, Len(Entered(p.num)) - 1)
            /\ Len(Entered(p.num)) = 1 => c.num = NumZero
            /\ Len(Entered(p.num)) > 1 => c.num = Str(toLocaleString(Entered(c.num)))

C19_OperatorAlwaysPending ==
    /\ last \in SignKeys => calc.sign = last
    /\ \A s \in SignKeys : buttonClickHandler(calc, history, s).calc.sign = s

\* C19, amended: after every press of an operator outside the Error state,
\* sign is that operator; pressed in the Error state the operator only resets
\* the calculator and sign stays empty.
C19_OperatorPending ==
    /\ last \in SignKeys =>
        calc.sign = (IF ErrorState(prev.calc) THEN "" ELSE last)
    /\ \A s \in SignKeys :
        buttonClickHandler(calc, history, s).calc.sign
            = (IF ErrorState(calc) THEN "" ELSE s)

\* An operator pressed right after another one: x takes the place of +.
C19_Witness ==
    /\ last = MUL
    /\ prev.calc = [sign |-> ADD, num |-> NumZero, res |-> Str(<<"2">>)]
    /\ calc = [sign |-> MUL, num |-> NumZero, res |-> Str(<<"2">>)]

\* signClickHandler's test calc.sign && calc.num && calc.res: the operator
\* pressed resolves the pending operation.
FoldApplies(c) == c.sign # "" /\ Truthy(c.num) /\ Truthy(c.res)

\* What C20 says of the operator s pressed on the calc p, where no fold
\* applies, that leaves the calc c: an operand that is not empty becomes res
\* and an empty one leaves res as it was; num is cleared; so an operator pressed
\* on an empty operand changes nothing but sign, and one pressed after equals
\* keeps in res the result the display showed.
OperatorWithoutFold(p, c, s) ==
    /\ c.num = NumZero
    /\ c.res = (IF p.num # NumZero THEN p.num ELSE p.res)
    /\ p.num = NumZero => c = [p EXCEPT !.sign = s]
    /\ (p.sign = "" /\ p.num = NumZero)
       => ToStr(c.res) = PrimaryDisplay(p, FALSE, hexDisplay)

\* C20 as stated: so it is for every operator pressed where no fold applies.
C20_OperatorMovesOperandAnywhere ==
    (last \in SignKeys /\ ~FoldApplies(prev.calc))
    => OperatorWithoutFold(prev.calc, calc, last)

\* C20, amended: so it is for every operator pressed outside the Error state
\* where no fold applies (in the Error state the operator is the reset of C5).
C20_OperatorMovesOperand ==
    /\ (last \in SignKeys /\ ~FoldApplies(prev.calc) /\ ~ErrorState(prev.calc))
       => OperatorWithoutFold(prev.calc, calc, last)
    /\ (~FoldApplies(calc) /\ ~ErrorState(calc))
       => \A s \in SignKeys :
           OperatorWithoutFold(calc, buttonClickHandler(calc, history, s).calc, s)

\* x pressed right after 2 + 2 = : the result 4 stays in res.
C20_Witness ==
    /\ last = MUL
    /\ prev.calc = [sign |-> "", num |-> NumZero, res |-> Str(<<"4">>)]
    /\ Len(history) = 1
    /\ calc = [sign |-> MUL, num |-> NumZero, res |-> Str(<<"4">>)]

\* What C21 says of an equals pressed on the calc p: with no pending operator,
\* or with no operand typed, calc and the history stay as they were.
EqualsWithoutOperation(p) == p.sign = "" \/ p.num = NumZero

\* C21 as stated: so it is in every state.
C21_EqualsNoOpAnywhere ==
    /\ (last = "=" /\ EqualsWithoutOperation(prev.calc))
       => (calc = prev.calc /\ history = prev.history)
    /\ EqualsWithoutOperation(calc)
       => buttonClickHandler(calc, history, "=") = [calc |-> calc, history |-> history]

\* C21, amended: so it is in every state but the Error state (where equals is
\* the reset of C5).
C21_EqualsNoOp ==
    /\ (last = "=" /\ EqualsWithoutOperation(prev.calc) /\ ~ErrorState(prev.calc))
       => (calc = prev.calc /\ history = prev.history)
    /\ (EqualsWithoutOperation(calc) /\ ~ErrorState(calc))
       => buttonClickHandler(calc, history, "=") = [calc |-> calc, history |-> history]

\* Equals pressed on 2 + with no operand typed.
C21_Witness ==
    /\ last = "="
    /\ prev.calc = [sign |-> ADD, num |-> NumZero, res |-> Str(<<"2">>)]
    /\ calc = prev.calc
    /\ history = prev.history

\* The same res: the same field, or two numerals of the same value.
SameResult(a, b) ==
    \/ a = b
    \/ /\ a # Str(zeroDivisionError)
       /\ b # Str(zeroDivisionError)
       /\ SameValueZero(ValueOf(a), ValueOf(b))

\* C29: with an operator pending and an operand entered (the left operand
\* being the initial 0 when the operator was pressed first), an operator stores
\* in res what equals would store.
C29_OperatorResolvesLikeEquals ==
    (calc.sign # "" /\ Truthy(calc.num))
    => \A s \in SignKeys :
        SameResult(buttonClickHandler(calc, history, s).calc.res,
                   buttonClickHandler(calc, history, "=").calc.res)

\* C35: in the Error state no operator is pending and num is the number 0; the
\* Error state is entered by equals alone, and the click of any button leaves
\* it.
C35_ErrorStateShape ==
    /\ ErrorState(calc) => (calc.sign = "" /\ calc.num = NumZero)
    /\ (ErrorState(calc) /\ ~ErrorState(prev.calc)) => last = "="
    /\ (ErrorState(prev.calc) /\ last \in Buttons) => ~ErrorState(calc)
    /\ ErrorState(calc)
       => \A btn \in Buttons : ~ErrorState(buttonClickHandler(calc, history, btn).calc)

\* 2 divided by 0: equals has just entered the Error state.
C35_Witness ==
    /\ last = "="
    /\ prev.calc = [sign |-> DIV, num |-> Str(<<"0">>), res |-> Str(<<"2">>)]
    /\ ErrorState(calc)
    /\ calc.sign = ""
    /\ calc.num = NumZero

\* What C36 says of the digit d pressed on the calc p with the history g, that
\* leaves the calc c and the history h.
DigitKeepsOrResetsResult(p, g, c, h) ==
    /\ p.sign = "" => (c.res = NumZero /\ c.sign = "")
    /\ p.sign # "" => (c.res = p.res /\ c.sign = p.sign)
    /\ h = g

\* C36: a digit pressed with no operator pending sets res to the number 0, so
\* that a digit typed after equals discards the result; a digit pressed with an
\* operator pending leaves res and sign as they were; a digit never changes
\* the history.
C36_DigitResetsResult ==
    /\ last \in DigitSet
       => DigitKeepsOrResetsResult(prev.calc, prev.history, calc, history)
    /\ \A d \in DigitSet :
        LET r == buttonClickHandler(calc, history, d)
        IN  DigitKeepsOrResetsResult(calc, history, r.calc, r.history)

\* 2 typed after 2 + 2 = : the result 4 is discarded and the history kept.
C36_Witness ==
    /\ last = "2"
    /\ prev.calc = [sign |-> "", num |-> NumZero, res |-> Str(<<"4">>)]
    /\ calc = [sign |-> "", num |-> Str(<<"2">>), res |-> NumZero]
    /\ Len(history) = 1

\* The blank of the primary display: a no-break space.
Blank == <<"U+00A0">>

\* C37: while HEX is not held down the displays are this function of calc. With
\* an operator pending the secondary display is res, a space and the operator,
\* and the primary display is the operand, or a blank when none is typed; with
\* none pending the secondary display is empty and the primary display is the
\* operand when one is typed, and res otherwise.
C37_DisplaysFollowState ==
    ~isHexView
    => LET primary   == PrimaryDisplay(calc, isHexView, hexDisplay)
           secondary == SecondaryDisplay(calc, isHexView)
           typed     == Entered(calc.num) # <<>>
       IN  /\ calc.sign # ""
              => /\ secondary = ToStr(calc.res) \o <<" ">> \o <<calc.sign>>
                 /\ typed => primary = ToStr(calc.num)
                 /\ ~typed => primary = Blank
           /\ calc.sign = ""
              => /\ secondary = <<>>
                 /\ typed => primary = ToStr(calc.num)
                 /\ ~typed => primary = ToStr(calc.res)

\* 2 + : the secondary display shows "2 +" and the primary display is blank.
C37_Witness ==
    /\ ~isHexView
    /\ last = ADD
    /\ calc = [sign |-> ADD, num |-> NumZero, res |-> Str(<<"2">>)]
    /\ PrimaryDisplay(calc, isHexView, hexDisplay) = <<"U+00A0">>
    /\ SecondaryDisplay(calc, isHexView) = <<"2", " ", "+">>

\* ------------------------------------------------- formatting and parsing

\* Digits before and after the point of the operand strings formatted.
MaxIntDigits == 7

MaxFracDigits == 4

FormatDigits == {"0", "1"}

\* The valid operand strings: an optional minus sign, digits, and an optional
\* fractional part (a point and digits, none for an operand whose point has
\* just been typed).
OperandStrings ==
    LET ints  == UNION {[1..k -> FormatDigits] : k \in 1..MaxIntDigits}
        fracs == {<<>>} \cup
                 {<<".">> \o f : f \in UNION {[1..k -> FormatDigits] : k \in 0..MaxFracDigits}}
    IN  {sg \o i \o f : sg \in {<<>>, <<"-">>}, i \in ints, f \in fracs}

IdleFormat ==
    /\ operand = <<>>
    /\ formatted = <<>>
    /\ stripped = <<>>

\* toLocaleString(operand)
Format ==
    /\ formatted = <<>>
    /\ formatted' = toLocaleString(operand)
    /\ UNCHANGED <<operand, stripped>>
    /\ UNCHANGED exceptFormat

\* removeSpaces(toLocaleString(operand))
Strip ==
    /\ formatted # <<>>
    /\ stripped = <<>>
    /\ stripped' = removeSpaces(Str(formatted))
    /\ UNCHANGED <<operand, formatted>>
    /\ UNCHANGED exceptFormat

\* The digits of a numeral before its point, grouped by three from the right
\* with a space between the groups.
RECURSIVE GroupedByThree(_)
GroupedByThree(ds) ==
    IF Len(ds) <= 3 THEN ds
    ELSE GroupedByThree(SubSeq(ds, 1, Len(ds) - 3)) \o <<" ">>
             \o SubSeq(ds, Len(ds) - 2, Len(ds))

\* An operand string with the digits before its point grouped by three, and its
\* sign and its fractional part as they are.
Grouped(s) ==
    LET neg  == s # <<>> /\ s[1] = "-"
        body == IF neg THEN Tail(s) ELSE s
        dot  == IndexOf(body, ".")
        int  == IF dot = 0 THEN body ELSE SubSeq(body, 1, dot - 1)
        frac == IF dot = 0 THEN <<>> ELSE SubSeq(body, dot, Len(body))
    IN  (IF neg THEN <<"-">> ELSE <<>>) \o GroupedByThree(int) \o frac

\* C22: for every valid operand string, toLocaleString puts a separator after
\* every group of three digits counted leftwards from the point (or the end)
\* and none in the fractional part, and removeSpaces of the result is the
\* operand string again.
C22_FormatParseInverse ==
    /\ formatted # <<>> => formatted = Grouped(operand)
    /\ stripped # <<>> => stripped = operand

\* -1234567.0001 is formatted as -1 234 567.0001 and stripped to itself again.
C22_Witness ==
    /\ operand = <<"-", "1", "0", "0", "0", "1", "0", "1", ".", "0", "0", "0", "1">>
    /\ formatted = <<"-", "1", " ", "0", "0", "0", " ", "1", "0", "1", ".", "0", "0", "0", "1">>
    /\ stripped = operand

\* -------------------------------------------------------------- OCR panels

Engines == {"Paddle", "Tesseract"}

\* Images loaded and recognize() calls made in one life of the panel.
MaxImages == 2

MaxCalls == 3

\* The texts the panel sets by itself (the literals of the code).
ModelLoadFailedText == <<"model load failed, check the network">>

NoTextFoundText == <<"no text recognized">>

PaddleFailedText == <<"error during recognition, see the console">>

TesseractFailedText == <<"recognition failed, see the console log">>

\* A string is a sequence of tokens; the lines of an array joined by "\n".
RECURSIVE Join(_)
Join(lines) ==
    IF lines = <<>> THEN <<>>
    ELSE IF Len(lines) = 1 THEN <<lines[1]>>
    ELSE <<lines[1], "\n">> \o Join(Tail(lines))

\* What recognize() can resolve to. Paddle: res.text, a string or an array of
\* strings. Tesseract: data.text, a string.
PaddleResults ==
    {[array |-> FALSE, lines |-> <<>>],
     [array |-> FALSE, lines |-> <<"T1">>],
     [array |-> TRUE, lines |-> <<>>],
     [array |-> TRUE, lines |-> <<"T1", "T2">>]}

TesseractResults ==
    {[array |-> FALSE, lines |-> <<>>],
     [array |-> FALSE, lines |-> <<"T1">>]}

Results(e) == IF e = "Paddle" THEN PaddleResults ELSE TesseractResults

NoResult == [array |-> FALSE, lines |-> <<"none">>]

\* The text set when recognize() resolves.
\* Paddle: res.text ? (Array.isArray(res.text) ? res.text.join('\n') : res.text)
\*                  : NoTextFoundText; an array is truthy even when empty.
ResolvedText_AlwaysResult(e, res) ==
    IF res.array THEN Join(res.lines) ELSE res.lines

ResolvedText(e, res) ==
    IF e = "Paddle"
    THEN IF res.array THEN Join(res.lines)
         ELSE IF res.lines # <<>> THEN res.lines
         ELSE NoTextFoundText
    ELSE res.lines

\* The text set when recognize() rejects.
RejectedText(e) == IF e = "Paddle" THEN PaddleFailedText ELSE TesseractFailedText

\* disabled={loading || !imageLoaded || !isModelLoaded} (or !worker)
RecognizeDisabled_IgnoresLoading(l, i, r) == ~i \/ ~r

RecognizeDisabled(l, i, r) == l \/ ~i \/ ~r

\* The panel as the history variables record it.
Panel ==
    [text |-> text, loading |-> loading, imageLoaded |-> imageLoaded,
     engineReady |-> engineReady, canvas |-> canvas, calls |-> calls]

Event(name, call, res) == [event |-> name, call |-> call, res |-> res]

\* The component mounted: its useState initial values, and the mount effect
\* that starts ocr.init() or createWorker().
OcrMounted(e) ==
    /\ engine = e
    /\ mounted = TRUE
    /\ text = <<>>
    /\ loading = FALSE
    /\ imageLoaded = FALSE
    /\ engineReady = FALSE
    /\ canvas = 0
    /\ creation = "pending"
    /\ active = TRUE
    /\ localWorker = FALSE
    /\ terminated = FALSE
    /\ calls = {}
    /\ started = 0
    /\ images = 0
    /\ ocrLast = Event("mount", 0, NoResult)
    /\ ocrPrev = Panel
    /\ textOf = 0

IdleOcr == OcrMounted("Tesseract")

\* ocr.init() resolves: setIsModelLoaded(true).
\* createWorker() resolves: localWorker = w; if (active) setWorker(localWorker).
CreationResolves ==
    /\ creation = "pending"
    /\ creation' = "done"
    /\ localWorker' = (engine = "Tesseract")
    /\ engineReady' = IF engine = "Paddle" THEN mounted ELSE active
    /\ ocrLast' = Event("created", 0, NoResult)
    /\ ocrPrev' = Panel
    /\ UNCHANGED <<engine, mounted, text, loading, imageLoaded, canvas, textOf>>
    /\ UNCHANGED <<active, terminated, calls, started, images>>
    /\ UNCHANGED exceptOcr

\* ocr.init() rejects: setText(ModelLoadFailedText).
\* createWorker() rejects: the error is logged.
CreationRejects ==
    /\ creation = "pending"
    /\ creation' = "failed"
    /\ text' = IF engine = "Paddle" /\ mounted THEN ModelLoadFailedText ELSE text
    /\ textOf' = IF engine = "Paddle" /\ mounted THEN 0 ELSE textOf
    /\ ocrLast' = Event("creation failed", 0, NoResult)
    /\ ocrPrev' = Panel
    /\ UNCHANGED <<engine, mounted, loading, imageLoaded, engineReady, canvas>>
    /\ UNCHANGED <<active, localWorker, terminated, calls, started, images>>
    /\ UNCHANGED exceptOcr

\* image.onload of loadImageFromFile (file chosen, dropped or pasted): the
\* image is drawn on the canvas; setImageLoaded(true); setText('').
ImageLoads ==
    /\ mounted
    /\ images < MaxImages
    /\ images' = images + 1
    /\ canvas' = images + 1
    /\ imageLoaded' = TRUE
    /\ text' = <<>>
    /\ textOf' = 0
    /\ ocrLast' = Event("image", 0, NoResult)
    /\ ocrPrev' = Panel
    /\ UNCHANGED <<engine, mounted, loading, engineReady>>
    /\ UNCHANGED <<ocrWorker, calls, started>>
    /\ UNCHANGED exceptOcr

\* clearImage, of the button rendered while imageLoaded: the canvas is
\* cleared; setImageLoaded(false); Paddle: setText('').
ClearImage ==
    /\ mounted
    /\ imageLoaded
    /\ canvas' = 0
    /\ imageLoaded' = FALSE
    /\ text' = IF engine = "Paddle" THEN <<>> ELSE text
    /\ textOf' = IF engine = "Paddle" THEN 0 ELSE textOf
    /\ ocrLast' = Event("clear", 0, NoResult)
    /\ ocrPrev' = Panel
    /\ UNCHANGED <<engine, mounted, loading, engineReady>>
    /\ UNCHANGED <<ocrWorker, calls, started, images>>
    /\ UNCHANGED exceptOcr

\* runOcr, of the recognize button, up to its await: setLoading(true);
\* setText(''); recognize(canvasRef.current).
RunOcr ==
    /\ mounted
    /\ ~RecognizeDisabled(loading, imageLoaded, engineReady)
    /\ imageLoaded
    /\ engineReady
    /\ started < MaxCalls
    /\ started' = started + 1
    /\ loading' = TRUE
    /\ text' = <<>>
    /\ textOf' = 0
    /\ calls' = calls \cup {[id |-> started + 1, image |-> canvas]}
    /\ ocrLast' = Event("start", started + 1, NoResult)
    /\ ocrPrev' = Panel
    /\ UNCHANGED <<engine, mounted, imageLoaded, engineReady, canvas>>
    /\ UNCHANGED <<ocrWorker, images>>
    /\ UNCHANGED exceptOcr

\* runOcr after its await, recognize() resolved: setText(...); finally
\* setLoading(false). Setting the state of an unmounted component does nothing.
RecognizeResolves ==
    \E c \in calls, res \in Results(engine) :
        /\ calls' = calls \ {c}
        /\ text' = IF mounted THEN ResolvedText(engine, res) ELSE text
        /\ textOf' = IF mounted THEN c.image ELSE textOf
        /\ loading' = IF mounted THEN FALSE ELSE loading
        /\ ocrLast' = Event("resolved", c.id, res)
        /\ ocrPrev' = Panel
        /\ UNCHANGED <<engine, mounted, imageLoaded, engineReady, canvas>>
        /\ UNCHANGED <<ocrWorker, started, images>>
        /\ UNCHANGED exceptOcr

\* runOcr after its await, recognize() rejected: setText(failure message);
\* finally setLoading(false).
RecognizeRejects ==
    \E c \in calls :
        /\ calls' = calls \ {c}
        /\ text' = IF mounted THEN RejectedText(engine) ELSE text
        /\ textOf' = IF mounted THEN 0 ELSE textOf
        /\ loading' = IF mounted THEN FALSE ELSE loading
        /\ ocrLast' = Event("rejected", c.id, NoResult)
        /\ ocrPrev' = Panel
        /\ UNCHANGED <<engine, mounted, imageLoaded, engineReady, canvas>>
        /\ UNCHANGED <<ocrWorker, started, images>>
        /\ UNCHANGED exceptOcr

\* The component unmounts. Tesseract, the cleanup of the worker effect:
\* active = false; if (localWorker) localWorker.terminate().
Unmount ==
    /\ mounted
    /\ mounted' = FALSE
    /\ active' = FALSE
    /\ terminated' = (engine = "Tesseract" /\ localWorker)
    /\ ocrLast' = Event("unmount", 0, NoResult)
    /\ ocrPrev' = Panel
    /\ UNCHANGED <<engine, text, loading, imageLoaded, engineReady, canvas, textOf>>
    /\ UNCHANGED <<creation, localWorker, calls, started, images>>
    /\ UNCHANGED exceptOcr

\* C23: in both panels at most one recognize() call is outstanding; a call is
\* started only with an image loaded, the engine ready and no call pending; and
\* the recognize button is disabled while a call is outstanding.
C23_OneRecognitionAtATime ==
    /\ Cardinality(calls) <= 1
    /\ ocrLast.event = "start"
       => /\ ocrPrev.imageLoaded
          /\ ocrPrev.engineReady
          /\ ocrPrev.calls = {}
          /\ ~ocrPrev.loading
    /\ (calls # {} /\ mounted)
       => /\ loading
          /\ RecognizeDisabled(loading, imageLoaded, engineReady)

\* A call is outstanding, the image has been replaced meanwhile and the engine
\* is ready: only the loading flag keeps the button disabled.
C23_Witness ==
    /\ mounted
    /\ calls = {[id |-> 2, image |-> 1]}
    /\ canvas = 2
    /\ imageLoaded
    /\ engineReady
    /\ loading

\* The text recognized: the string of the result, or its lines joined.
RecognizedText(res) == IF res.array THEN Join(res.lines) ELSE res.lines

\* A call's own steps leave the loaded image and the engine's readiness alone.
CallKeepsImageAndEngine ==
    ocrLast.event \in {"start", "resolved", "rejected"}
        => /\ imageLoaded = ocrPrev.imageLoaded
           /\ engineReady = ocrPrev.engineReady
           /\ canvas = ocrPrev.canvas

MaxPicks == 5

NoError == "null"

UnsupportedBrowserError == "your browser does not support the EyeDropper API"

UnsupportedError == "the EyeDropper API is not supported"

CancelledError == "color pick cancelled"

\* The value of a hexadecimal digit, of either case; 16 for any other character.
HexDigitValue(c) ==
    LET lower == <<"a", "b", "c", "d", "e", "f">>
    IN  IF \E i \in 1..16 : HexChars[i] = c
        THEN (CHOOSE i \in 1..16 : HexChars[i] = c) - 1
        ELSE IF \E i \in 1..6 : lower[i] = c
        THEN 9 + (CHOOSE i \in 1..6 : lower[i] = c)
        ELSE 16

\* parseInt(cs, 16) for a string without sign, space or 0x: the value of its
\* longest prefix of hexadecimal digits, NaN (here -1) when that is empty.
RECURSIVE ParseHexPrefix(_, _)
ParseHexPrefix(cs, acc) ==
    IF cs = <<>> \/ HexDigitValue(cs[1]) = 16 THEN acc
    ELSE ParseHexPrefix(Tail(cs), 16 * acc + HexDigitValue(cs[1]))

parseInt16(cs) ==
    IF cs = <<>> \/ HexDigitValue(cs[1]) = 16 THEN -1
    ELSE ParseHexPrefix(cs, 0)

\* String.prototype.substring(from, to) for 0 <= from <= to
Substring(cs, from, to) ==
    SubSeq(cs, (IF from < Len(cs) THEN from ELSE Len(cs)) + 1,
               IF to < Len(cs) THEN to ELSE Len(cs))

\* hex.replace('#', ''): the first "#" removed
RemoveFirstHash(cs) ==
    LET i == IndexOf(cs, "#")
    IN  IF i = 0 THEN cs ELSE SubSeq(cs, 1, i - 1) \o SubSeq(cs, i + 1, Len(cs))

\* hexToRgba(hex)
hexToRgba(hex) ==
    LET stripped0 == RemoveFirstHash(hex)
        hexValue  == IF Len(stripped0) = 3
                     THEN <<stripped0[1], stripped0[1], stripped0[2], stripped0[2],
                            stripped0[3], stripped0[3]>>
                     ELSE stripped0
    IN  [r |-> parseInt16(Substring(hexValue, 0, 2)),
         g |-> parseInt16(Substring(hexValue, 2, 4)),
         b |-> parseInt16(Substring(hexValue, 4, 6)),
         a |-> 255]

\* What open() can resolve to: result.sRGBHex, "#rrggbb".
PickedHexes ==
    {<<"#", "0", "0", "0", "0", "0", "0">>,
     <<"#", "f", "f", "8", "0", "0", "a">>,
     <<"#", "1", "2", "a", "b", "c", "d">>,
     <<"#", "f", "f", "f", "f", "f", "f">>}

NoHex == <<>>

\* The picker as the history variables record it.
Picker ==
    [pickedColor |-> pickedColor, error |-> error, isSupported |-> isSupported,
     isPicking |-> isPicking, pickers |-> pickers]

\* disabled={!isSupported || isPicking}
PickDisabled_IgnoresPicking(sup, picking) == ~sup

PickDisabled(sup, picking) == ~sup \/ picking

\* The component mounted: its useState initial values.
PickerMounted(api) ==
    /\ hasEyeDropper = api
    /\ checked = FALSE
    /\ pickedColor = <<>>
    /\ error = NoError
    /\ isSupported = FALSE
    /\ isPicking = FALSE
    /\ pickers = 0
    /\ picks = 0
    /\ pickLast = [event |-> "mount", hex |-> NoHex]
    /\ pickPrev = Picker

IdlePicker == PickerMounted(TRUE)

\* The support effect, run once after mount.
CheckSupport ==
    /\ ~checked
    /\ checked' = TRUE
    /\ isSupported' = hasEyeDropper
    /\ error' = IF hasEyeDropper THEN error ELSE UnsupportedBrowserError
    /\ pickLast' = [event |-> "support", hex |-> NoHex]
    /\ pickPrev' = Picker
    /\ UNCHANGED <<hasEyeDropper, pickedColor, isPicking, pickers, picks>>
    /\ UNCHANGED exceptPicker

\* handlePickColor, of the pick button, up to its await. With !isSupported it
\* only sets the error, but the button is disabled then.
PickColor ==
    /\ ~PickDisabled(isSupported, isPicking)
    /\ picks < MaxPicks
    /\ picks' = picks + 1
    /\ IF ~isSupported
       THEN /\ error' = UnsupportedError
            /\ UNCHANGED <<isPicking, pickers>>
       ELSE /\ isPicking' = TRUE
            /\ error' = NoError
            /\ pickers' = pickers + 1
    /\ pickLast' = [event |-> "pick", hex |-> NoHex]
    /\ pickPrev' = Picker
    /\ UNCHANGED <<hasEyeDropper, checked, pickedColor, isSupported>>
    /\ UNCHANGED exceptPicker

\* handlePickColor after its await, open() resolved:
\* setPickedColor(hexToRgba(result.sRGBHex)); finally setIsPicking(false).
PickerResolves ==
    /\ pickers > 0
    /\ \E hex \in PickedHexes :
        /\ pickedColor' = <<hexToRgba(hex)>>
        /\ pickLast' = [event |-> "resolved", hex |-> hex]
    /\ isPicking' = FALSE
    /\ pickers' = pickers - 1
    /\ pickPrev' = Picker
    /\ UNCHANGED <<hasEyeDropper, checked, error, isSupported, picks>>
    /\ UNCHANGED exceptPicker

\* handlePickColor after its await, open() rejected (the user pressed ESC):
\* setError(CancelledError); finally setIsPicking(false).
PickerRejects ==
    /\ pickers > 0
    /\ error' = CancelledError
    /\ isPicking' = FALSE
    /\ pickers' = pickers - 1
    /\ pickLast' = [event |-> "rejected", hex |-> NoHex]
    /\ pickPrev' = Picker
    /\ UNCHANGED <<hasEyeDropper, checked, pickedColor, isSupported, picks>>
    /\ UNCHANGED exceptPicker

\* The color a "#rrggbb" string names, channel by channel.
ColorOf(hex) ==
    [r |-> 16 * HexDigitValue(hex[2]) + HexDigitValue(hex[3]),
     g |-> 16 * HexDigitValue(hex[4]) + HexDigitValue(hex[5]),
     b |-> 16 * HexDigitValue(hex[6]) + HexDigitValue(hex[7]),
     a |-> 255]

\* C25: at most one picker is open and the pick button is disabled while one
\* is; a cancelled pick shows the cancellation message, keeps the color picked
\* before and resets the picking flag; a successful pick replaces the color
\* picked, shows no error and resets the picking flag.
C25_OneShotCancelablePick ==
    /\ pickers <= 1
    /\ pickers > 0 => (isPicking /\ PickDisabled(isSupported, isPicking))
    /\ pickLast.event = "pick" => pickPrev.pickers = 0
    /\ pickLast.event = "rejected"
       => /\ error = CancelledError
          /\ pickedColor = pickPrev.pickedColor
          /\ ~isPicking
    /\ pickLast.event = "resolved"
       => /\ pickedColor = <<ColorOf(pickLast.hex)>>
          /\ error = NoError
          /\ ~isPicking

\* A second pick cancelled: the color of the first pick is still shown.
C25_Witness ==
    /\ pickLast.event = "rejected"
    /\ pickedColor = <<[r |-> 255, g |-> 128, b |-> 10, a |-> 255]>>
    /\ error = CancelledError
    /\ ~isPicking
    /\ pickers = 0

\* ------------------------------------------------------------------- timer

DefaultWorkMinutes == 25

DefaultBreakMinutes == 5

\* User events handled in one life of the timer.
MaxInputs == 3

\* The durations typed into the inputs, in hundredths of a minute: the input's
\* min={1} is a hint to the browser, Number(e.target.value) takes any number,
\* and 0 for the emptied field.
TypedMinutes == {0, 50, 101}

\* minutes * 60: hundredths of a minute to tenths of a second
Times60(m) == m * 6

\* useState<boolean>(true), never set
isWork == TRUE

\* The reset effect, run when workMinutes or breakMinutes has changed:
\* setTimeLeft(isWork ? workMinutes * 60 : breakMinutes * 60).
ResetEffect_BreakPhase(work, break) == Times60(break)

ResetEffect(work, break) == IF isWork THEN Times60(work) ELSE Times60(break)

\* The tick effect, run when isRunning has changed: the cleanup clears the
\* interval of the last run, and an interval is set if the timer is running.
TickEffect_NoCleanup(was, now, n) ==
    IF was = now THEN n ELSE n + (IF now THEN 1 ELSE 0)

TickEffect(was, now, n) ==
    IF was = now THEN n
    ELSE (n - (IF was THEN 1 ELSE 0)) + (IF now THEN 1 ELSE 0)

\* The updater of the interval: t > 0 ? t - 1 : (setIsRunning(false), 0)
TickUpdater_NeverStops(t, running) ==
    IF t > 0 THEN [timeLeft |-> t - 10, isRunning |-> running]
    ELSE [timeLeft |-> 0, isRunning |-> running]

TickUpdater(t, running) ==
    IF t > 0 THEN [timeLeft |-> t - 10, isRunning |-> running]
    ELSE [timeLeft |-> 0, isRunning |-> FALSE]

\* The timer as the history variables record it.
Timer == [timeLeft |-> timeLeft, isRunning |-> isRunning, timers |-> timers]

\* The component mounted: its useState initial values; the effects of the
\* mount set timeLeft to the same value and no interval.
TimerMounted ==
    /\ workMinutes = 100 * DefaultWorkMinutes
    /\ breakMinutes = 100 * DefaultBreakMinutes
    /\ timeLeft = Times60(100 * DefaultWorkMinutes)
    /\ isRunning = FALSE
    /\ timers = 0
    /\ inputs = 0
    /\ timerLast = "mount"
    /\ timerPrev = Timer

\* onChange of the work input: setWorkMinutes(Number(e.target.value)), then
\* the reset effect. Setting the value it has renders nothing.
SetWorkMinutes ==
    /\ inputs < MaxInputs
    /\ \E v \in TypedMinutes :
        /\ v # workMinutes
        /\ workMinutes' = v
        /\ timeLeft' = ResetEffect(v, breakMinutes)
    /\ inputs' = inputs + 1
    /\ timerLast' = "work"
    /\ timerPrev' = Timer
    /\ UNCHANGED <<breakMinutes, isRunning, timers>>
    /\ UNCHANGED exceptTimer

\* onChange of the break input: setBreakMinutes(Number(e.target.value)), then
\* the reset effect.
SetBreakMinutes ==
    /\ inputs < MaxInputs
    /\ \E v \in TypedMinutes :
        /\ v # breakMinutes
        /\ breakMinutes' = v
        /\ timeLeft' = ResetEffect(workMinutes, v)
    /\ inputs' = inputs + 1
    /\ timerLast' = "break"
    /\ timerPrev' = Timer
    /\ UNCHANGED <<workMinutes, isRunning, timers>>
    /\ UNCHANGED exceptTimer

\* onClick of the start/pause button: setIsRunning(!isRunning), then the tick
\* effect.
StartPause ==
    /\ inputs < MaxInputs
    /\ isRunning' = ~isRunning
    /\ timers' = TickEffect(isRunning, ~isRunning, timers)
    /\ inputs' = inputs + 1
    /\ timerLast' = "toggle"
    /\ timerPrev' = Timer
    /\ UNCHANGED <<workMinutes, breakMinutes, timeLeft>>
    /\ UNCHANGED exceptTimer

\* The state the reset button sets: setIsRunning(false);
\* setTimeLeft(isWork ? workMinutes * 60 : breakMinutes * 60).
ResetClick_KeepsRunning(work, break, running) ==
    [isRunning |-> running,
     timeLeft  |-> IF isWork THEN Times60(work) ELSE Times60(break)]

ResetClick(work, break, running) ==
    [isRunning |-> FALSE,
     timeLeft  |-> IF isWork THEN Times60(work) ELSE Times60(break)]

\* onClick of the reset button, then the tick effect.
ResetTimer ==
    /\ inputs < MaxInputs
    /\ isRunning' = ResetClick(workMinutes, breakMinutes, isRunning).isRunning
    /\ timeLeft' = ResetClick(workMinutes, breakMinutes, isRunning).timeLeft
    /\ timers' = TickEffect(isRunning,
                            ResetClick(workMinutes, breakMinutes, isRunning).isRunning,
                            timers)
    /\ inputs' = inputs + 1
    /\ timerLast' = "reset"
    /\ timerPrev' = Timer
    /\ UNCHANGED <<workMinutes, breakMinutes>>
    /\ UNCHANGED exceptTimer

\* An interval fires: setTimeLeft(updater), then the tick effect.
Tick ==
    /\ timers > 0
    /\ timeLeft' = TickUpdater(timeLeft, isRunning).timeLeft
    /\ isRunning' = TickUpdater(timeLeft, isRunning).isRunning
    /\ timers' = TickEffect(isRunning, TickUpdater(timeLeft, isRunning).isRunning, timers)
    /\ timerLast' = "tick"
    /\ timerPrev' = Timer
    /\ UNCHANGED <<workMinutes, breakMinutes, inputs>>
    /\ UNCHANGED exceptTimer

\* C26: a change of the work or of the break duration, with the timer running
\* or paused, sets the remaining time to workMinutes * 60 and leaves the
\* running flag as it was, with exactly one interval set while running.
C26_ReconfigurationRestarts ==
    /\ timerLast \in {"work", "break"}
       => /\ timeLeft = 6 * workMinutes
          /\ isRunning = timerPrev.isRunning
    /\ isRunning => timers = 1

\* The work duration changed to half a minute while the timer was running.
C26_Witness ==
    /\ timerLast = "work"
    /\ workMinutes = 50
    /\ timeLeft = 300
    /\ timerPrev.timeLeft < Times60(100 * DefaultWorkMinutes)
    /\ timerPrev.isRunning
    /\ isRunning
    /\ timers = 1

\* What a tick does to a running timer: one second less while seconds remain,
\* and at zero the timer stops and stays at zero.
TickCountsDown ==
    timerLast = "tick"
        => /\ timerPrev.isRunning
           /\ timerPrev.timeLeft > 0
              => (timeLeft = timerPrev.timeLeft - 10 /\ isRunning)
           /\ timerPrev.timeLeft = 0
              => (timeLeft = 0 /\ ~isRunning)

\* C27: each tick of the running timer takes one second off the remaining time
\* while it is positive, and a tick at zero stops the timer at zero; so a
\* running timer, with no further user event, gets to zero and stops.
C27_CountdownReachesZero ==
    /\ []TickCountsDown
    /\ \A k \in 0..MaxInputs :
        (isRunning /\ inputs = k) ~> (inputs > k \/ (timeLeft = 0 /\ ~isRunning))

\* The tick that found zero seconds left of a half-minute countdown.
C27_Witness ==
    /\ timerLast = "tick"
    /\ workMinutes = 50
    /\ timerPrev.isRunning
    /\ timerPrev.timeLeft = 0
    /\ timeLeft = 0
    /\ ~isRunning
    /\ timers = 0

\* C32: an interval is set exactly while the timer is running, never two; a
\* tick comes only to a running timer, so that the remaining time of a paused
\* timer changes only by a reset or a change of a duration; and the start/pause
\* button leaves the remaining time as it was.
C32_PauseCancelsTick ==
    /\ timers = (IF isRunning THEN 1 ELSE 0)
    /\ timerLast = "tick" => (timerPrev.isRunning /\ timerPrev.timers = 1)
    /\ (~timerPrev.isRunning /\ timeLeft # timerPrev.timeLeft)
       => timerLast \in {"reset", "work", "break"}
    /\ timerLast = "toggle"
       => (timeLeft = timerPrev.timeLeft /\ isRunning = ~timerPrev.isRunning)

\* The timer paused after it had counted down for a while.
C32_Witness ==
    /\ timerLast = "toggle"
    /\ timerPrev.isRunning
    /\ timerPrev.timers = 1
    /\ ~isRunning
    /\ timers = 0
    /\ timeLeft = timerPrev.timeLeft
    /\ timeLeft < 6 * workMinutes

\* C33: the reset button, pressed in any state, stops the timer and sets the
\* remaining time to workMinutes * 60.
C33_ResetStopsAndRestores ==
    timerLast = "reset"
        => /\ ~isRunning
           /\ timers = 0
           /\ timeLeft = 6 * workMinutes

\* The timer reset while it was running below its full time.
C33_Witness ==
    /\ timerLast = "reset"
    /\ timerPrev.isRunning
    /\ timerPrev.timeLeft < 6 * workMinutes
    /\ ~isRunning
    /\ timeLeft = 6 * workMinutes
    /\ workMinutes > 0

\* C34: with both durations of a minute or more, the remaining time is never
\* below zero nor above workMinutes * 60.
C34_TimeLeftInRange ==
    (workMinutes >= 100 /\ breakMinutes >= 100)
        => (0 <= timeLeft /\ timeLeft <= 6 * workMinutes)

\* -------------------------------------------------------------------- dock

\* What localStorage can hold under the key: nothing ("null"), a side, or
\* anything else.
StoredValues == {"null", "left", "right", "top"}

\* The ids of the buttons of the expanded panel.
DockButtons == {"pomodoro", "calculator", "eyedropper", "ocr", "formula-editor"}

\* The initializer of side: saved === 'left' || saved === 'right' ? saved : 'right'
InitialSide_IgnoresStorage(saved) == "right"

InitialSide(saved) == IF saved = "left" \/ saved = "right" THEN saved ELSE "right"

\* The dock as the history variables record it.
Dock == [stored |-> stored, side |-> side]

IdleDock ==
    /\ stored = "right"
    /\ dockMounted = TRUE
    /\ side = "right"
    /\ hovering = FALSE
    /\ scrolledTo = "none"
    /\ chosen = "none"
    /\ dockLast = "mount"
    /\ dockPrev = Dock

\* The component mounts: the initializer of side reads the storage, and the
\* effect of [side] writes the side back.
DockMount ==
    /\ ~dockMounted
    /\ dockMounted' = TRUE
    /\ side' = InitialSide(stored)
    /\ stored' = InitialSide(stored)
    /\ hovering' = FALSE
    /\ dockLast' = "mount"
    /\ dockPrev' = Dock
    /\ UNCHANGED <<scrolledTo, chosen>>
    /\ UNCHANGED exceptDock

\* The component unmounts: its state is gone, the storage stays.
DockUnmount ==
    /\ dockMounted
    /\ dockMounted' = FALSE
    /\ dockLast' = "unmount"
    /\ dockPrev' = Dock
    /\ UNCHANGED <<stored, side, hovering, scrolledTo, chosen>>
    /\ UNCHANGED exceptDock

\* onDoubleClick of the round button, rendered while !hovering:
\* setSide(next); setItem(next); then the effect of [side] writes it again.
DoubleClick ==
    /\ dockMounted
    /\ ~hovering
    /\ side' = (IF side = "left" THEN "right" ELSE "left")
    /\ stored' = (IF side = "left" THEN "right" ELSE "left")
    /\ chosen' = (IF side = "left" THEN "right" ELSE "left")
    /\ dockLast' = "dblclick"
    /\ dockPrev' = Dock
    /\ UNCHANGED <<dockMounted, hovering, scrolledTo>>
    /\ UNCHANGED exceptDock

\* onKeyDown, ArrowLeft: setSide('left'); setItem('left')
ArrowLeft ==
    /\ dockMounted
    /\ ~hovering
    /\ side' = "left"
    /\ stored' = "left"
    /\ chosen' = "left"
    /\ dockLast' = "ArrowLeft"
    /\ dockPrev' = Dock
    /\ UNCHANGED <<dockMounted, hovering, scrolledTo>>
    /\ UNCHANGED exceptDock

\* onKeyDown, ArrowRight: setSide('right'); setItem('right')
ArrowRight ==
    /\ dockMounted
    /\ ~hovering
    /\ side' = "right"
    /\ stored' = "right"
    /\ chosen' = "right"
    /\ dockLast' = "ArrowRight"
    /\ dockPrev' = Dock
    /\ UNCHANGED <<dockMounted, hovering, scrolledTo>>
    /\ UNCHANGED exceptDock

\* onMouseEnter of the dock, onFocus of the round button, onKeyDown Enter:
\* setHovering(true)
Expand ==
    /\ dockMounted
    /\ ~hovering
    /\ hovering' = TRUE
    /\ dockLast' = "expand"
    /\ dockPrev' = Dock
    /\ UNCHANGED <<stored, dockMounted, side, scrolledTo, chosen>>
    /\ UNCHANGED exceptDock

\* onMouseLeave of the dock: setHovering(false)
MouseLeave ==
    /\ dockMounted
    /\ hovering
    /\ hovering' = FALSE
    /\ dockLast' = "leave"
    /\ dockPrev' = Dock
    /\ UNCHANGED <<stored, dockMounted, side, scrolledTo, chosen>>
    /\ UNCHANGED exceptDock

\* onClick of a button of the expanded panel: scrollTo(b.id)
ScrollTo ==
    /\ dockMounted
    /\ hovering
    /\ \E id \in DockButtons : scrolledTo' = id
    /\ dockLast' = "scroll"
    /\ dockPrev' = Dock
    /\ UNCHANGED <<stored, dockMounted, side, hovering, chosen>>
    /\ UNCHANGED exceptDock

\* C28: a mount takes the side from the storage when that holds "left" or
\* "right", and "right" otherwise; after every change of the side the storage
\* holds the side; so a mount restores the side chosen last.
C28_SideRoundTrips ==
    /\ dockLast = "mount"
       => /\ dockPrev.stored = "left" => side = "left"
          /\ dockPrev.stored # "left" => side = "right"
          /\ chosen # "none" => side = chosen
    /\ dockLast \in {"dblclick", "ArrowLeft", "ArrowRight"}
       => (stored = side /\ side = chosen)
    /\ dockLast = "dblclick" => side # dockPrev.side
    /\ dockLast = "ArrowLeft" => side = "left"
    /\ dockLast = "ArrowRight" => side = "right"

\* The dock mounted again after the user had moved it to the left.
C28_Witness ==
    /\ dockLast = "mount"
    /\ dockMounted
    /\ chosen = "left"
    /\ dockPrev.stored = "left"
    /\ side = "left"
    /\ stored = "left"

\* C30: the worker of the Tesseract panel is terminated when the component
\* unmounts, whether createWorker() had resolved before the unmount or resolves
\* after it: once the component is unmounted no worker it created stays
\* un-terminated, and a worker created after the unmount is never stored in
\* the component's state.
C30_WorkerTerminatedOnUnmount ==
    (engine = "Tesseract" /\ ~mounted)
    => /\ localWorker => terminated
       /\ (ocrLast.event = "created") => ~engineReady

\* C31: the text a mounted panel shows as the result of a recognition is the
\* result for the image now loaded: a call that settles after its image was
\* replaced or cleared does not show its result.
C31_TextBelongsToImage ==
    (mounted /\ textOf # 0) => (imageLoaded /\ canvas = textOf)

\* ----------------------------------------------------------- color helpers

\* x.toString(16) for a natural number: lowercase digits.
RECURSIVE ToString16(_)
ToString16(n) ==
    LET digits == <<"0", "1", "2", "3", "4", "5", "6", "7", "8", "9",
                    "a", "b", "c", "d", "e", "f">>
    IN  IF n < 16 THEN <<digits[n + 1]>>
        ELSE Append(ToString16(n \div 16), digits[(n % 16) + 1])

\* String.prototype.toUpperCase on the characters of a hex color
ToUpperCase(cs) ==
    LET upper(c) == CASE c = "a" -> "A" [] c = "b" -> "B" [] c = "c" -> "C"
                      [] c = "d" -> "D" [] c = "e" -> "E" [] c = "f" -> "F"
                      [] OTHER -> c
    IN  [i \in 1..Len(cs) |-> upper(cs[i])]

\* Mutation of rgbToHex: a channel of one digit not padded.
rgbToHex_NoPadding(r, g, b) ==
    ToUpperCase(<<"#">> \o ToString16(r) \o ToString16(g) \o ToString16(b))

\* rgbToHex(r, g, b)
rgbToHex(r, g, b) ==
    LET two(x) == LET h == ToString16(x)
                  IN  IF Len(h) = 1 THEN <<"0">> \o h ELSE h
    IN  ToUpperCase(<<"#">> \o two(r) \o two(g) \o two(b))

\* The channel values of the colors converted: every value of 0..255 in each
\* channel, beside the values of Others in the two other channels.
Channel == 0..255

Others == {0, 9, 171, 255}

Colors ==
    {[r |-> x, g |-> y, b |-> z] : x \in Channel, y \in Others, z \in Others}
    \cup {[r |-> y, g |-> x, b |-> z] : x \in Channel, y \in Others, z \in Others}
    \cup {[r |-> y, g |-> z, b |-> x] : x \in Channel, y \in Others, z \in Others}

\* The shorthands parsed: "#" and three hexadecimal digits of either case.
ShorthandDigits ==
    {"0", "1", "2", "3", "4", "5", "6", "7", "8", "9",
     "a", "b", "c", "d", "e", "f", "A", "B", "C", "D", "E", "F"}

Shorthands ==
    {<<"#", x, y, z>> : x \in ShorthandDigits, y \in ShorthandDigits, z \in ShorthandDigits}

IdleColor ==
    /\ color = [r |-> 0, g |-> 0, b |-> 0]
    /\ colorHex = <<>>
    /\ rgba = <<>>
    /\ shorthand = <<"#", "0", "0", "0">>
    /\ parsedShort = <<>>
    /\ parsedLong = <<>>

\* rgbToHex(r, g, b)
ToHex ==
    /\ colorHex = <<>>
    /\ colorHex' = rgbToHex(color.r, color.g, color.b)
    /\ UNCHANGED <<color, rgba, shorthand, parsedShort, parsedLong>>
    /\ UNCHANGED exceptColor

\* hexToRgba(rgbToHex(r, g, b))
ToRgba ==
    /\ colorHex # <<>>
    /\ rgba = <<>>
    /\ rgba' = <<hexToRgba(colorHex)>>
    /\ UNCHANGED <<color, colorHex, shorthand, parsedShort, parsedLong>>
    /\ UNCHANGED exceptColor

\* hexToRgba("#abc") and hexToRgba("#aabbcc")
ParseShorthand ==
    /\ parsedShort = <<>>
    /\ parsedShort' = <<hexToRgba(shorthand)>>
    /\ parsedLong' = <<hexToRgba(<<"#", shorthand[2], shorthand[2], shorthand[3],
                                  shorthand[3], shorthand[4], shorthand[4]>>)>>
    /\ UNCHANGED <<color, colorHex, rgba, shorthand>>
    /\ UNCHANGED exceptColor

\* The value of two uppercase hexadecimal digits.
TwoHexDigits(a, b) ==
    16 * ((CHOOSE i \in 1..16 : HexChars[i] = a) - 1)
        + ((CHOOSE i \in 1..16 : HexChars[i] = b) - 1)

\* C38: for channels of 0..255 rgbToHex gives "#" and six uppercase hexadecimal
\* digits, two for each channel, and hexToRgba of it gives the channels back
\* with alpha 255; and hexToRgba reads a shorthand "#abc" as it reads "#aabbcc".
C38_ColorHelpersRoundTrip ==
    /\ colorHex # <<>>
       => /\ Len(colorHex) = 7
          /\ colorHex[1] = "#"
          /\ \A i \in 2..7 : \E k \in 1..16 : HexChars[k] = colorHex[i]
          /\ TwoHexDigits(colorHex[2], colorHex[3]) = color.r
          /\ TwoHexDigits(colorHex[4], colorHex[5]) = color.g
          /\ TwoHexDigits(colorHex[6], colorHex[7]) = color.b
    /\ rgba # <<>>
       => rgba = <<[r |-> color.r, g |-> color.g, b |-> color.b, a |-> 255]>>
    /\ parsedShort # <<>>
       => /\ parsedShort = parsedLong
          /\ parsedShort[1].r = 17 * HexDigitValue(shorthand[2])
          /\ parsedShort[1].g = 17 * HexDigitValue(shorthand[3])
          /\ parsedShort[1].b = 17 * HexDigitValue(shorthand[4])
          /\ parsedShort[1].a = 255

\* The color (10, 171, 255) written as #0AABFF and read back.
C38_Witness ==
    /\ color = [r |-> 10, g |-> 171, b |-> 255]
    /\ colorHex = <<"#", "0", "A", "A", "B", "F", "F">>
    /\ rgba = <<[r |-> 10, g |-> 171, b |-> 255, a |-> 255]>>

\* --------------------------------------------------------- specifications

\* Every component mounted and in its initial state.
Init ==
    /\ InitCalculator
    /\ IdleFormat
    /\ IdleOcr
    /\ IdlePicker
    /\ TimerMounted
    /\ IdleDock
    /\ IdleColor

\* The calculator under every event of its buttons.
Spec == Init /\ [][Next]_vars

\* The calculator under clicks of its digit buttons alone.
SpecTyping == Init /\ [][TypeDigit]_vars

\* toLocaleString and removeSpaces on every operand string of OperandStrings.
InitFormat ==
    /\ InitCalculator
    /\ IdleOcr
    /\ IdlePicker
    /\ TimerMounted
    /\ IdleDock
    /\ IdleColor
    /\ operand \in OperandStrings
    /\ formatted = <<>>
    /\ stripped = <<>>

NextFormat ==
    \/ Format
    \/ Strip

SpecFormat == InitFormat /\ [][NextFormat]_vars

\* The OCR panel, in either version, under every event it can see.
InitOcr ==
    /\ InitCalculator
    /\ IdleFormat
    /\ IdlePicker
    /\ TimerMounted
    /\ IdleDock
    /\ IdleColor
    /\ \E e \in Engines : OcrMounted(e)

NextOcr ==
    \/ CreationResolves
    \/ CreationRejects
    \/ ImageLoads
    \/ ClearImage
    \/ RunOcr
    \/ RecognizeResolves
    \/ RecognizeRejects
    \/ Unmount

SpecOcr == InitOcr /\ [][NextOcr]_vars

\* The color picker, in a browser with or without the EyeDropper API.
InitPicker ==
    /\ InitCalculator
    /\ IdleFormat
    /\ IdleOcr
    /\ TimerMounted
    /\ IdleDock
    /\ IdleColor
    /\ \E b \in BOOLEAN : PickerMounted(b)

NextPicker ==
    \/ CheckSupport
    \/ PickColor
    \/ PickerResolves
    \/ PickerRejects

SpecPicker == InitPicker /\ [][NextPicker]_vars

\* The countdown timer under its ticks and the events of its inputs and buttons.
InitTimer ==
    /\ InitCalculator
    /\ IdleFormat
    /\ IdleOcr
    /\ IdlePicker
    /\ TimerMounted
    /\ IdleDock
    /\ IdleColor

NextTimer ==
    \/ SetWorkMinutes
    \/ SetBreakMinutes
    \/ StartPause
    \/ ResetTimer
    \/ Tick

SpecTimer == InitTimer /\ [][NextTimer]_vars

\* The same, with the interval firing again and again as long as it is set.
SpecTimerFair == SpecTimer /\ WF_vars(Tick)

\* The dock mounted and unmounted over a localStorage that holds anything.
InitDock ==
    /\ InitCalculator
    /\ IdleFormat
    /\ IdleOcr
    /\ IdlePicker
    /\ TimerMounted
    /\ IdleColor
    /\ stored \in StoredValues
    /\ dockMounted = FALSE
    /\ side = "right"
    /\ hovering = FALSE
    /\ scrolledTo = "none"
    /\ chosen = "none"
    /\ dockLast = "none"
    /\ dockPrev = Dock

NextDock ==
    \/ DockMount
    \/ DockUnmount
    \/ DoubleClick
    \/ ArrowLeft
    \/ ArrowRight
    \/ Expand
    \/ MouseLeave
    \/ ScrollTo

SpecDock == InitDock /\ [][NextDock]_vars

\* rgbToHex and hexToRgba on the colors of Colors and the shorthands of
\* Shorthands.
InitColor ==
    /\ InitCalculator
    /\ IdleFormat
    /\ IdleOcr
    /\ IdlePicker
    /\ TimerMounted
    /\ IdleDock
    /\ \/ (color \in Colors /\ shorthand = <<"#", "0", "0", "0">>)
       \/ (color = [r |-> 0, g |-> 0, b |-> 0] /\ shorthand \in Shorthands)
    /\ colorHex = <<>>
    /\ rgba = <<>>
    /\ parsedShort = <<>>
    /\ parsedLong = <<>>

NextColor ==
    \/ ToHex
    \/ ToRgba
    \/ ParseShorthand

SpecColor == InitColor /\ [][NextColor]_vars

====
